---- MODULE Spec2Model ----
(***************************************************************************)
(* Model of volpiano-display-utilities: the Latin word syllabifier, the    *)
(* chant-text tokenizer, the volpiano tokenizer and the text/volpiano      *)
(* aligner.  Strings are sequences of one-character strings; indices into  *)
(* strings are 0-based as in the Python source (At, Slice).                *)
(***************************************************************************)
EXTENDS Integers, Sequences, FiniteSets, TLC

VARIABLES
    pc,         \* position of the call being modelled
    word,       \* argument of syllabify_word
    wres,       \* outcome of syllabify_word: [err, val]
    syls,       \* split_word_by_syl_bounds(word, wres.val)
    text,       \* argument of syllabify_text / align_text_and_volpiano
    clean,      \* clean_text argument
    presyl,     \* text_presyllabified argument
    tres,       \* outcome of syllabify_text: [err, secs, adj]
    volpiano,   \* argument of align_text_and_volpiano
    st_text,    \* syllabified_text (list of sections) inside the aligner
    st_vol,     \* syllabified_volpiano (list of sections) inside the aligner
    fin_bar,    \* closing barline kept by align_text_and_volpiano
    flag,       \* review_encoding_flag
    err,        \* exception that ended the call ("none" while running)
    aligned,    \* aligned_text_and_vol_syls
    iters,      \* iterations of the barline-inference loop taken so far
    vres,       \* outcome of a volpiano function: [err, vol, secs, flag]
    txt_length  \* text_length argument of adjust_missing_music_spacing_for_rendering

vars == <<pc, word, wres, syls, text, clean, presyl, tres, volpiano,
          st_text, st_vol, fin_bar, flag, err, aligned, iters, vres, txt_length>>

-----------------------------------------------------------------------------
(* Bounds of the model *)

MaxWordLen == 4

-----------------------------------------------------------------------------
(* Python string primitives *)

Min(a, b) == IF a < b THEN a ELSE b
Max(a, b) == IF a > b THEN a ELSE b

\* s[i] for 0 <= i < len(s)
At(s, i) == s[i + 1]

\* s[a:b] for 0 <= a, 0 <= b (Python clamps both ends to len(s))
Slice(s, a, b) ==
    LET hi == Min(b, Len(s))
        lo == Min(a, Len(s))
    IN  IF lo >= hi THEN <<>> ELSE SubSeq(s, lo + 1, hi)

\* s[a:]
SliceFrom(s, a) == Slice(s, a, Len(s))

\* s[-n:]
LastN(s, n) == Slice(s, Max(Len(s) - n, 0), Len(s))

\* s.startswith(p)
StartsWith(s, p) == Len(p) <= Len(s) /\ Slice(s, 0, Len(p)) = p

RECURSIVE Concat(_)
\* "".join(ss)
Concat(ss) == IF ss = <<>> THEN <<>> ELSE Head(ss) \o Concat(Tail(ss))

SeqsUpTo(S, n) == UNION {[1..k -> S] : k \in 0..n}

LowerLetters ==
    {"a","b","c","d","e","f","g","h","i","j","k","l","m",
     "n","o","p","q","r","s","t","u","v","w","x","y","z"}

UpperToLower ==
    [c \in {"A","B","C","D","E","F","G","H","I","J","K","L","M",
            "N","O","P","Q","R","S","T","U","V","W","X","Y","Z"} |->
       CASE c = "A" -> "a" [] c = "B" -> "b" [] c = "C" -> "c" [] c = "D" -> "d"
         [] c = "E" -> "e" [] c = "F" -> "f" [] c = "G" -> "g" [] c = "H" -> "h"
         [] c = "I" -> "i" [] c = "J" -> "j" [] c = "K" -> "k" [] c = "L" -> "l"
         [] c = "M" -> "m" [] c = "N" -> "n" [] c = "O" -> "o" [] c = "P" -> "p"
         [] c = "Q" -> "q" [] c = "R" -> "r" [] c = "S" -> "s" [] c = "T" -> "t"
         [] c = "U" -> "u" [] c = "V" -> "v" [] c = "W" -> "w" [] c = "X" -> "x"
         [] c = "Y" -> "y" [] c = "Z" -> "z"]

UpperLetters == DOMAIN UpperToLower

\* str.lower(), on the characters of the model
lower(s) == [i \in 1..Len(s) |-> IF s[i] \in UpperLetters THEN UpperToLower[s[i]] ELSE s[i]]

-----------------------------------------------------------------------------
(* latin_word_syllabification.py *)

_CONSONANT_GROUPS ==
    {<<"c","h">>, <<"p","h">>, <<"t","h">>, <<"r","h">>, <<"g","n">>, <<"q","u">>,
     <<"g","u">>, <<"s","c">>, <<"p","l">>, <<"p","r">>, <<"b","l">>, <<"b","r">>,
     <<"t","r">>, <<"d","r">>, <<"c","l">>, <<"c","r">>, <<"f","l">>, <<"f","r">>,
     <<"g","l">>, <<"g","r">>, <<"s","t">>}

_NASALIZED_CONSONANTS == {"m", "n"}

_PREFIX_GROUPS ==
    {<<"a","b">>, <<"o","b">>, <<"a","d">>, <<"p","e","r">>, <<"s","u","b">>,
     <<"i","n">>, <<"c","o","n">>, <<"c","o">>}

_VOWELS == {"a", "e", "i", "o", "u", "y"}
_VOWELS_AEOU == {"a", "e", "o", "u"}
_VOWELS_AEIOU == {"a", "e", "i", "o", "u"}
_VOWELS_AEO == {"a", "e", "o"}
_VOWELS_EOU == {"e", "o", "u"}
_VOWELS_IY == {"i", "y"}
_VOWELS_IUY == {"i", "u", "y"}
\* "q" and "g" with the "q" left out
_QG_g_only == {"g"}

_QG == {"q", "g"}

\* a character class that forgets the upper-case range
LATIN_ALPH_lower_only == LowerLetters

\* LATIN_ALPH_REGEX = [^a-zA-Z] : the characters it does NOT match
LATIN_ALPH == LowerLetters \cup UpperLetters

\* LATIN_ALPH_REGEX.search(word)
LATIN_ALPH_REGEX_search(w) == \E i \in 1..Len(w) : w[i] \notin LATIN_ALPH

RECURSIVE split_mid(_, _, _)
\* the middle syllables of split_word_by_syl_bounds: word[bnd1:bnd2] + "-" for
\* successive bounds k, k+1 (1-based positions in syl_bounds)
split_mid(w, syl_bounds, k) ==
    IF k >= Len(syl_bounds) THEN <<>>
    ELSE <<Slice(w, syl_bounds[k], syl_bounds[k + 1]) \o <<"-">> >>
         \o split_mid(w, syl_bounds, k + 1)

\* the last syllable sliced one character too late
split_word_by_syl_bounds_late(w, syl_bounds) ==
    IF Len(syl_bounds) = 0 THEN <<w>>
    ELSE <<Slice(w, 0, syl_bounds[1]) \o <<"-">> >>
         \o split_mid(w, syl_bounds, 1)
         \o <<SliceFrom(w, syl_bounds[Len(syl_bounds)] + 1)>>

split_word_by_syl_bounds(w, syl_bounds) ==
    IF Len(syl_bounds) = 0 THEN <<w>>
    ELSE <<Slice(w, 0, syl_bounds[1]) \o <<"-">> >>
         \o split_mid(w, syl_bounds, 1)
         \o <<SliceFrom(w, syl_bounds[Len(syl_bounds)])>>

\* At most one prefix can match (only "co"/"con" share a start, and "con"+vowel
\* excludes "co"+vowel), so the set iteration order of the source is immaterial.
_get_prefixes(w) ==
    LET found == {p \in _PREFIX_GROUPS :
                     /\ StartsWith(w, p)
                     /\ w # p
                     /\ At(w, Len(p)) \in _VOWELS}
    IN  IF found = {} THEN <<>> ELSE CHOOSE p \in found : TRUE

\* The first character of _replace_semivowels_and_v: "IndexError" when the
\* try block indexes past the end of the word, else the replacement character.
repl_first(w) ==
    LET first_let == At(w, 0)
        n == Len(w)
    IN  CASE first_let = "y" ->
               IF n < 2 THEN "IndexError"
               ELSE IF At(w, 1) \in _VOWELS_AEIOU THEN "j" ELSE "y"
          [] first_let = "i" ->
               IF n < 2 THEN "IndexError"
               ELSE IF At(w, 1) \in _VOWELS_AEOU THEN "j"
               ELSE IF At(w, 1) = "h"
                    THEN IF n < 3 THEN "IndexError"
                         ELSE IF At(w, 2) \in _VOWELS_AEO THEN "j" ELSE "i"
                    ELSE "i"
          [] first_let = "u" ->
               IF n < 2 THEN "IndexError"
               ELSE IF At(w, 1) \in _VOWELS THEN "v" ELSE "u"
          [] OTHER -> first_let

RECURSIVE repl_rest(_, _, _)
\* The while loop of _replace_semivowels_and_v: w is the whole word, i the
\* 0-based position of the next character, word_w_repl the output so far.
repl_rest(w, i, word_w_repl) ==
    IF i >= Len(w) THEN word_w_repl
    ELSE
      LET char == At(w, i)
          last == (i = Len(w) - 1)
          prev == At(word_w_repl, Len(word_w_repl) - 1)
          out ==
            IF char \notin _VOWELS_IUY \/ last THEN char
            ELSE IF char \in _VOWELS_IY THEN
              IF \/ (prev \in _VOWELS_AEOU /\ At(w, i + 1) \in _VOWELS_AEOU)
                 \/ /\ LastN(word_w_repl, 2) \notin _CONSONANT_GROUPS
                    /\ prev = "h"
                    /\ At(w, i + 1) \in _VOWELS_EOU
              THEN "j" ELSE "i"
            ELSE \* char = "u"
              IF prev \in _QG /\ At(w, i + 1) \in _VOWELS THEN "w"
              ELSE IF prev \in _VOWELS /\ At(w, i + 1) \in _VOWELS THEN "v"
              ELSE "u"
      IN  repl_rest(w, i + 1, Append(word_w_repl, out))

_replace_semivowels_and_v(w) ==
    IF repl_first(w) = "IndexError" THEN w
    ELSE repl_rest(w, 1, <<repl_first(w)>>)

RECURSIVE positions_in(_, _, _)
\* [idx for idx, char in enumerate(w) if char in S], from 0-based position i
positions_in(w, S, i) ==
    IF i >= Len(w) THEN <<>>
    ELSE (IF At(w, i) \in S THEN <<i>> ELSE <<>>) \o positions_in(w, S, i + 1)

_get_vowel_positions(w) ==
    LET j_to_i == [k \in 1..Len(w) |-> IF w[k] = "j" THEN "i" ELSE w[k]]
    IN  positions_in(_replace_semivowels_and_v(j_to_i), _VOWELS, 0)

\* _get_syl_bound_position: the boundary adjustment (the split_case string is
\* only logged)
_get_syl_bound_position(ltrs_btw_vow_grps) ==
    LET n == Len(ltrs_btw_vow_grps)
        nasal == n >= 2 /\ At(ltrs_btw_vow_grps, 0) \in _NASALIZED_CONSONANTS
        rest == IF nasal THEN SliceFrom(ltrs_btw_vow_grps, 1) ELSE ltrs_btw_vow_grps
        num == Len(rest)
        syl_bound == IF nasal THEN 1 ELSE 0
    IN  IF n = 0 THEN 0
        ELSE IF At(ltrs_btw_vow_grps, 0) = "x" THEN 1
        ELSE IF n = 1 THEN 0
        ELSE IF nasal /\ num = 1 THEN syl_bound
        ELSE IF num = 2 THEN
               IF rest \notin _CONSONANT_GROUPS THEN syl_bound + 1 ELSE syl_bound
        ELSE IF rest = <<"s","t","r">> THEN syl_bound
        ELSE IF SliceFrom(rest, 1) \in _CONSONANT_GROUPS THEN syl_bound + 1
        ELSE IF Slice(rest, 0, 2) \in _CONSONANT_GROUPS THEN syl_bound
        ELSE syl_bound + 1

\* a diphthong list without "au"
is_dipthong_no_au(word_stem, v_pos_1, v_pos_2) ==
    /\ v_pos_2 - 1 = v_pos_1
    /\ Slice(word_stem, v_pos_1, v_pos_2 + 1) \in {<<"a","e">>, <<"o","e">>}

\* the adjacent-vowel test of _syllabify: the pair is skipped (no boundary)
is_dipthong(word_stem, v_pos_1, v_pos_2) ==
    /\ v_pos_2 - 1 = v_pos_1
    /\ Slice(word_stem, v_pos_1, v_pos_2 + 1) \in {<<"a","e">>, <<"o","e">>, <<"a","u">>}

RECURSIVE syl_loop(_, _, _, _)
\* the for loop of _syllabify over successive pairs of vowel positions,
\* k the 1-based position of the pair in vow_pos
syl_loop(word_stem, vow_pos, word_prefix_length, k) ==
    IF k >= Len(vow_pos) THEN <<>>
    ELSE
      LET v_pos_1 == vow_pos[k]
          v_pos_2 == vow_pos[k + 1]
          syl_bound == v_pos_1 + 1
          here ==
            IF is_dipthong(word_stem, v_pos_1, v_pos_2) THEN <<>>
            ELSE <<syl_bound
                   + _get_syl_bound_position(Slice(word_stem, v_pos_1 + 1, v_pos_2))
                   + word_prefix_length>>
      IN  here \o syl_loop(word_stem, vow_pos, word_prefix_length, k + 1)

_syllabify(w) ==
    IF Len(w) <= 1 THEN <<>>
    ELSE
      LET word_prefix == _get_prefixes(w)
          word_prefix_length == Len(word_prefix)
          start == IF word_prefix # <<>> THEN <<word_prefix_length>> ELSE <<>>
          word_stem == SliceFrom(w, word_prefix_length)
          vow_pos == _get_vowel_positions(word_stem)
      IN  IF Len(vow_pos) = 1 THEN start
          ELSE start \o syl_loop(word_stem, vow_pos, word_prefix_length, 1)

\* syllabify_word(word, return_string=False): [err, val]
syllabify_word(w) ==
    IF LATIN_ALPH_REGEX_search(w)
    THEN [err |-> "LatinError", val |-> <<>>]
    ELSE [err |-> "none", val |-> _syllabify(lower(w))]

-----------------------------------------------------------------------------
(* cantus_text_syllabification.py: exception table *)

EXCEPTIONS_DICT ==
    [w \in {<<"e","u","o","u","a","e">>,
            <<"i","s","r","a","e","l","i","t","i","s">>,
            <<"i","s","r","a","e","l">>,
            <<"m","i","c","h","a","e","l">>,
            <<"n","o","e">>} |->
       CASE w = <<"e","u","o","u","a","e">> -> <<1, 2, 3, 4, 5>>
         [] w = <<"i","s","r","a","e","l","i","t","i","s">> -> <<2, 4, 5, 7>>
         [] w = <<"i","s","r","a","e","l">> -> <<2, 4>>
         [] w = <<"m","i","c","h","a","e","l">> -> <<2, 5>>
         [] w = <<"n","o","e">> -> <<2>>]

\* INVALID_CHAR_REGEX = [^\w#~\{\}\[\]\|\- 8] : the characters it does NOT
\* match (\w restricted to the ASCII characters of the model)
Digits == {"0", "1", "2", "3", "4", "5", "6", "7", "8", "9"}
VALID_TEXT_CHARS ==
    LowerLetters \cup UpperLetters \cup Digits
        \cup {"_", "#", "~", "{", "}", "[", "]", "|", "-", " "}

RECURSIVE SelectChars(_, _)
\* the characters of s that are in S, in order
SelectChars(s, S) ==
    IF s = <<>> THEN <<>>
    ELSE (IF Head(s) \in S THEN <<Head(s)>> ELSE <<>>) \o SelectChars(Tail(s), S)

\* a cleaning that also drops the hyphen
_clean_text_no_hyphen(t) == SelectChars(t, VALID_TEXT_CHARS \ {"-"})

_clean_text(t) == SelectChars(t, VALID_TEXT_CHARS)

_detect_invalid_characters(t) == \E i \in 1..Len(t) : t[i] \notin VALID_TEXT_CHARS

RECURSIVE space_preceding_hash(_, _)
\* SPACE_PRECEDING_HASH_REGEX.sub(" #", t) from 0-based position i:
\* (?<=[^\{]) ?#  matches an optional space and a hash that follow a character
\* other than "{"
space_preceding_hash(t, i) ==
    IF i >= Len(t) THEN <<>>
    ELSE
      LET behind == i >= 1 /\ At(t, i - 1) # "{"
      IN  IF behind /\ At(t, i) = " " /\ i + 1 < Len(t) /\ At(t, i + 1) = "#"
          THEN <<" ", "#">> \o space_preceding_hash(t, i + 2)
          ELSE IF behind /\ At(t, i) = "#"
          THEN <<" ", "#">> \o space_preceding_hash(t, i + 1)
          ELSE <<At(t, i)>> \o space_preceding_hash(t, i + 1)

RECURSIVE space_following_hash(_, _)
\* SPACE_FOLLOWING_HASH_REGEX.sub("# ", t) from 0-based position i:
\* # ?(?=[^\}])  matches a hash and an optional space that are followed by a
\* character other than "}"
space_following_hash(t, i) ==
    IF i >= Len(t) THEN <<>>
    ELSE IF At(t, i) # "#" THEN <<At(t, i)>> \o space_following_hash(t, i + 1)
    ELSE IF i + 2 < Len(t) /\ At(t, i + 1) = " " /\ At(t, i + 2) # "}"
    THEN <<"#", " ">> \o space_following_hash(t, i + 2)
    ELSE IF i + 1 < Len(t) /\ At(t, i + 1) # "}"
    THEN <<"#", " ">> \o space_following_hash(t, i + 1)
    ELSE <<"#">> \o space_following_hash(t, i + 1)

\* _space_hash_signs: [text, adjusted]
_space_hash_signs(t) ==
    LET spaced_text == space_following_hash(space_preceding_hash(t, 0), 0)
    IN  [text |-> spaced_text, adjusted |-> spaced_text # t]

\* _prepare_string_for_syllabification: [word, start_hyphen, end_hyphen]
_prepare_string_for_syllabification(word_str) ==
    LET start_hyphen == Len(word_str) > 0 /\ At(word_str, 0) = "-"
        w1 == IF start_hyphen THEN SliceFrom(word_str, 1) ELSE word_str
        end_hyphen == Len(w1) > 0 /\ At(w1, Len(w1) - 1) = "-"
        w2 == IF end_hyphen THEN Slice(w1, 0, Len(w1) - 1) ELSE w1
    IN  [word |-> w2, start_hyphen |-> start_hyphen, end_hyphen |-> end_hyphen]

\* positions j >= i of t holding character c (0-based)
PositionsFrom(t, c, i) == {j \in i..(Len(t) - 1) : At(t, j) = c}
SetMin(S) == CHOOSE x \in S : \A y \in S : x <= y
SetMax(S) == CHOOSE x \in S : \A y \in S : x >= y

RECURSIVE sectioner_split(_, _, _)
\* TEXT_SECTIONER_REGEX.split(t) from 0-based position i, cur being the text
\* since the last match:  (\||\{.*?\}|~.*?(?=\||$)|\[.*\])
sectioner_split(t, i, cur) ==
    IF i >= Len(t) THEN <<cur>>
    ELSE
      LET c == At(t, i)
      IN  IF c = "|"
          THEN <<cur, <<"|">> >> \o sectioner_split(t, i + 1, <<>>)
          ELSE IF c = "{" /\ PositionsFrom(t, "}", i + 1) # {}
          THEN LET j == SetMin(PositionsFrom(t, "}", i + 1))
               IN  <<cur, Slice(t, i, j + 1)>> \o sectioner_split(t, j + 1, <<>>)
          ELSE IF c = "~"
          THEN LET j == IF PositionsFrom(t, "|", i + 1) = {} THEN Len(t)
                        ELSE SetMin(PositionsFrom(t, "|", i + 1))
               IN  <<cur, Slice(t, i, j)>> \o sectioner_split(t, j, <<>>)
          ELSE IF c = "[" /\ PositionsFrom(t, "]", i + 1) # {}
          THEN LET j == SetMax(PositionsFrom(t, "]", i + 1))
               IN  <<cur, Slice(t, i, j + 1)>> \o sectioner_split(t, j + 1, <<>>)
          ELSE sectioner_split(t, i + 1, Append(cur, c))

RECURSIVE lstrip(_)
lstrip(s) == IF s # <<>> /\ Head(s) = " " THEN lstrip(Tail(s)) ELSE s
RECURSIVE rstrip(_)
rstrip(s) ==
    IF s # <<>> /\ s[Len(s)] = " " THEN rstrip(Slice(s, 0, Len(s) - 1)) ELSE s
\* str.strip(), the only whitespace of a valid text being the space
strip(s) == rstrip(lstrip(s))

RECURSIVE NonEmpty(_)
\* the elements of a list other than the empty string
NonEmpty(ss) ==
    IF ss = <<>> THEN <<>>
    ELSE (IF Head(ss) = <<>> THEN <<>> ELSE <<Head(ss)>>) \o NonEmpty(Tail(ss))

_split_text_sections(t) ==
    LET pieces == sectioner_split(t, 0, <<>>)
    IN  NonEmpty([k \in 1..Len(pieces) |-> strip(pieces[k])])

RECURSIVE split_on(_, _, _)
\* str.split(sep) for a one-character separator, cur being the current piece
split_on(s, sep, cur) ==
    IF s = <<>> THEN <<cur>>
    ELSE IF Head(s) = sep THEN <<cur>> \o split_on(Tail(s), sep, <<>>)
    ELSE split_on(Tail(s), sep, Append(cur, Head(s)))

\* f"{syl}-" for every syllable but the last
hyphenate(syl_list) ==
    [i \in 1..Len(syl_list) |->
        IF i # Len(syl_list) THEN syl_list[i] \o <<"-">> ELSE syl_list[i]]

\* re-add the leading and trailing hyphens of a word
readd_hyphens(syllabified_word, start_hyphen, end_hyphen) ==
    [i \in 1..Len(syllabified_word) |->
        (IF start_hyphen /\ i = 1 THEN <<"-">> ELSE <<>>)
        \o syllabified_word[i]
        \o (IF end_hyphen /\ i = Len(syllabified_word) THEN <<"-">> ELSE <<>>)]

\* a lookup with the word as written
exception_key_as_written(w) == w

\* word.lower(), the key looked up in EXCEPTIONS_DICT
exception_key(w) == lower(w)

\* the body of the loop over the words of a section in syllabify_text:
\* [err, syls]
syllabify_text_word(w, text_presyllabified) ==
    IF w = <<"#">> THEN [err |-> "none", syls |-> <<w>>]
    ELSE IF exception_key(w) \in DOMAIN EXCEPTIONS_DICT
    THEN [err |-> "none",
          syls |-> split_word_by_syl_bounds(w, EXCEPTIONS_DICT[exception_key(w)])]
    ELSE
      LET prep == _prepare_string_for_syllabification(w)
          res == syllabify_word(prep.word)
      IN  IF text_presyllabified
          THEN [err |-> "none",
                syls |-> readd_hyphens(hyphenate(split_on(prep.word, "-", <<>>)),
                                       prep.start_hyphen, prep.end_hyphen)]
          ELSE IF res.err # "none" THEN [err |-> res.err, syls |-> <<>>]
          ELSE [err |-> "none",
                syls |-> readd_hyphens(split_word_by_syl_bounds(prep.word, res.val),
                                       prep.start_hyphen, prep.end_hyphen)]

\* the test that keeps a section of text unsyllabified
is_literal_section(text_section) ==
    text_section = <<"|">> \/ At(text_section, 0) \in {"{", "~", "["}

\* one section of syllabify_text: [err, sec]
syllabify_text_section(text_section, text_presyllabified) ==
    IF is_literal_section(text_section)
    THEN [err |-> "none", sec |-> << <<text_section>> >>]
    ELSE
      LET words == NonEmpty(split_on(text_section, " ", <<>>))
          done == [k \in 1..Len(words) |->
                      syllabify_text_word(words[k], text_presyllabified)]
      IN  IF \E k \in 1..Len(words) : done[k].err # "none"
          THEN [err |-> "LatinError", sec |-> <<>>]
          ELSE [err |-> "none", sec |-> [k \in 1..Len(words) |-> done[k].syls]]

\* syllabify_text(text, clean_text, text_presyllabified): [err, secs, adj].
\* err is "ValueError" for invalid characters with clean_text = False and
\* "LatinError" (a ValueError) when a word is refused by syllabify_word.
syllabify_text(t, clean_text, text_presyllabified) ==
    IF ~clean_text /\ _detect_invalid_characters(t)
    THEN [err |-> "ValueError", secs |-> <<>>, adj |-> FALSE]
    ELSE
      LET spaced == _space_hash_signs(IF clean_text THEN _clean_text(t) ELSE t)
          text_sections == _split_text_sections(spaced.text)
          done == [k \in 1..Len(text_sections) |->
                      syllabify_text_section(text_sections[k], text_presyllabified)]
      IN  IF \E k \in 1..Len(text_sections) : done[k].err # "none"
          THEN [err |-> "LatinError", secs |-> <<>>, adj |-> FALSE]
          ELSE [err |-> "none",
                secs |-> [k \in 1..Len(text_sections) |-> done[k].sec],
                adj |-> spaced.adjusted]

-----------------------------------------------------------------------------
(* volpiano_syllabification.py *)

\* INVALID_VOLPIANO_CHARS_REGEX: the characters it does NOT match
VALID_VOLPIANO_CHARS ==
    {"-", "9", "a", "b", "c", "d", "e", "f", "g", "h", "i", "j", "k", "l", "m",
     "n", "o", "p", "q", "r", "s", "y", "z", ")", "A", "B", "C", "D", "E", "F",
     "G", "H", "I", "J", "K", "L", "M", "N", "O", "P", "Q", "R", "S", "Y", "Z",
     "3", "4", "6", "7"}

RECURSIVE run_end(_, _, _)
\* the end (exclusive, 0-based) of the maximal run of characters of S that
\* starts at position i of s
run_end(s, S, i) ==
    IF i < Len(s) /\ At(s, i) \in S THEN run_end(s, S, i + 1) ELSE i

\* STARTING_MATERIAL_REGEX.sub("", raw):  ^.*?1-*  removes everything up to
\* the first clef and the hyphens that follow it
remove_starting_material_clef_only(raw) ==
    IF PositionsFrom(raw, "1", 0) = {} THEN raw
    ELSE SliceFrom(raw, SetMin(PositionsFrom(raw, "1", 0)) + 1)

remove_starting_material(raw) ==
    IF PositionsFrom(raw, "1", 0) = {} THEN raw
    ELSE SliceFrom(raw, run_end(raw, {"-"}, SetMin(PositionsFrom(raw, "1", 0)) + 1))

\* prepare_volpiano_for_syllabification: [vol, flag]
prepare_volpiano_for_syllabification(raw_volpiano_str) ==
    LET clef_bad == \/ Slice(raw_volpiano_str, 0, 4) # <<"1", "-", "-", "-">>
                    \/ Slice(raw_volpiano_str, 0, 5) = <<"1", "-", "-", "-", "-">>
        vol_clef_rmvd == remove_starting_material(raw_volpiano_str)
        processed_vol == SelectChars(vol_clef_rmvd, VALID_VOLPIANO_CHARS)
        num_substitutions == Len(vol_clef_rmvd) - Len(processed_vol)
    IN  [vol |-> processed_vol, flag |-> clef_bad \/ num_substitutions > 0]

RECURSIVE vol_section_split(_, _, _)
\* VOLPIANO_SECTIONING_REGEX.split(v) from 0-based position i, cur being the
\* text since the last match:  ([34][\-7]*|6[\-7]*6[\-7]*)
vol_section_split(v, i, cur) ==
    IF i >= Len(v) THEN <<cur>>
    ELSE
      LET c == At(v, i)
          e1 == run_end(v, {"-", "7"}, i + 1)
      IN  IF c \in {"3", "4"}
          THEN <<cur, Slice(v, i, e1)>> \o vol_section_split(v, e1, <<>>)
          ELSE IF c = "6" /\ e1 < Len(v) /\ At(v, e1) = "6"
          THEN LET e2 == run_end(v, {"-", "7"}, e1 + 1)
               IN  <<cur, Slice(v, i, e2)>> \o vol_section_split(v, e2, <<>>)
          ELSE vol_section_split(v, i + 1, Append(cur, c))

\* the first position j >= i at which a run of at least n hyphens starts, or
\* Len(s) when there is none
first_hyphen_run(s, n, i) ==
    LET starts == {j \in i..(Len(s) - n) : \A d \in 0..(n - 1) : At(s, j + d) = "-"}
    IN  IF starts = {} THEN Len(s) ELSE SetMin(starts)

RECURSIVE hyphen_findall(_, _, _)
\* re.findall of  .*?-{n,}|.+$  on s from 0-based position i
\* (VOLPIANO_WORD_REGEX for n = 3, VOLPIANO_SYLLABLE_REGEX for n = 2)
hyphen_findall(s, n, i) ==
    IF i >= Len(s) THEN <<>>
    ELSE
      LET j == first_hyphen_run(s, n, i)
          e == run_end(s, {"-"}, j)
      IN  IF j = Len(s) THEN <<SliceFrom(s, i)>>
          ELSE <<Slice(s, i, e)>> \o hyphen_findall(s, n, e)

\* s.replace("7", "")
without_7(s) == SelectChars(s, {s[k] : k \in 1..Len(s)} \ {"7"})

\* the spacing check of a barline or missing-music section, vol_sec_idx its
\* 0-based index in the list of sections
marker_improperly_spaced(vol_sec, vol_sec_idx) ==
    IF At(vol_sec, 0) = "6"
       /\ \/ LastN(vol_sec, 3) # <<"-", "-", "-">>
          \/ Slice(vol_sec, 1, 8) # <<"-", "-", "-", "-", "-", "-", "6">>
          \/ Len(without_7(vol_sec)) # 11
    THEN TRUE
    ELSE /\ At(vol_sec, 0) \in {"3", "4"}
         /\ vol_sec_idx # Len(vol_sec) - 1
         /\ \/ LastN(vol_sec, 3) # <<"-", "-", "-">>
            \/ Len(without_7(vol_sec)) # 4

\* the spacing check of the final syllable of a word (an IndexError on
\* final_syl_of_word[-4] also counts as improper spacing)
word_improperly_spaced(vol_syls) ==
    LET final_syl_of_word == vol_syls[Len(vol_syls)]
    IN  \/ Len(vol_syls) = 0
        \/ LastN(final_syl_of_word, 3) # <<"-", "-", "-">>
        \/ Len(final_syl_of_word) < 4
        \/ At(final_syl_of_word, Len(final_syl_of_word) - 4) = "-"

\* one section of syllabify_volpiano: [sec, improper]
syllabify_volpiano_section(vol_sec, vol_sec_idx) ==
    IF At(vol_sec, 0) \in {"3", "4", "6"}
    THEN [sec |-> << <<vol_sec>> >>,
          improper |-> marker_improperly_spaced(vol_sec, vol_sec_idx)]
    ELSE
      LET vol_words == hyphen_findall(vol_sec, 3, 0)
          syllabified_words ==
              [k \in 1..Len(vol_words) |-> hyphen_findall(vol_words[k], 2, 0)]
      IN  [sec |-> syllabified_words,
           improper |-> \E k \in 1..Len(vol_words) :
                            word_improperly_spaced(syllabified_words[k])]

\* syllabify_volpiano(volpiano): [secs, improper]
syllabify_volpiano(v) ==
    LET volpiano_sections == NonEmpty(vol_section_split(v, 0, <<>>))
        done == [k \in 1..Len(volpiano_sections) |->
                    syllabify_volpiano_section(volpiano_sections[k], k - 1)]
    IN  [secs |-> [k \in 1..Len(volpiano_sections) |-> done[k].sec],
         improper |-> \E k \in 1..Len(volpiano_sections) : done[k].improper]

RECURSIVE rstrip_hyphens(_)
\* s.rstrip("-")
rstrip_hyphens(s) ==
    IF s # <<>> /\ s[Len(s)] = "-" THEN rstrip_hyphens(Slice(s, 0, Len(s) - 1)) ELSE s

\* the volpiano as it is
ensure_end_of_word_spacing_skipped(v) == v

ensure_end_of_word_spacing(v) ==
    IF LastN(v, 3) # <<"-", "-", "-">>
    THEN rstrip_hyphens(v) \o <<"-", "-", "-">>
    ELSE v

\* "-" * n
Hyphens(n) == [k \in 1..n |-> "-"]

\* the spacing of the end of a word only
adjust_volpiano_spacing_unpadded(volpiano_syllable, text_length, end_of_word) ==
    IF end_of_word THEN ensure_end_of_word_spacing(volpiano_syllable)
    ELSE volpiano_syllable

adjust_volpiano_spacing_for_rendering(volpiano_syllable, text_length, end_of_word) ==
    LET padded == IF text_length > Len(volpiano_syllable)
                  THEN volpiano_syllable \o Hyphens(text_length - Len(volpiano_syllable))
                  ELSE volpiano_syllable
    IN  IF end_of_word THEN ensure_end_of_word_spacing(padded) ELSE padded

\* adjust_missing_music_spacing_for_rendering: [err, val]
adjust_missing_music_spacing_for_rendering(v, text_length) ==
    IF v = <<>> THEN [err |-> "IndexError", val |-> <<>>]
    ELSE IF At(v, 0) # "6" THEN [err |-> "ValueError", val |-> <<>>]
    ELSE
      LET section_term == SliceFrom(v, SetMax(PositionsFrom(v, "6", 0)) + 1)
          spaced_vol == IF text_length <= 10
                        THEN <<"6", "-", "-", "-", "-", "-", "-", "6">>
                        ELSE <<"6">> \o Hyphens(text_length) \o <<"6">>
      IN  [err |-> "none", val |-> ensure_end_of_word_spacing(spaced_vol \o section_term)]

-----------------------------------------------------------------------------
(* syllabified_section.py: a section is a list of words, a word a list of    *)
(* syllables.  A predicate is "T", "F" or "IndexError" (the exception an     *)
(* index into an empty list or an empty string raises).                      *)

Bool(b) == IF b THEN "T" ELSE "F"

\* SyllabifiedTextSection.is_syllabified
text_is_syllabified(section) ==
    IF section = <<>> \/ section[1] = <<>> THEN "IndexError"
    ELSE LET s == section[1][1]
         IN  IF s # <<>> /\ s[1] \in {"~", "[", "{"} THEN "F"
             ELSE IF s = <<>> THEN "IndexError"
             ELSE Bool(s[1] # "|")

\* SyllabifiedTextSection.is_barline
text_is_barline(section) ==
    IF section = <<>> \/ section[1] = <<>> \/ section[1][1] = <<>> THEN "IndexError"
    ELSE Bool(section[1][1][1] = "|")

\* SyllabifiedVolpianoSection.is_barline
vol_is_barline(section) ==
    IF section = <<>> \/ section[1] = <<>> \/ section[1][1] = <<>> THEN "IndexError"
    ELSE Bool(section[1][1][1] \in {"3", "4"})

\* SyllabifiedVolpianoSection.is_missing_music
vol_is_missing_music(section) ==
    IF section = <<>> \/ section[1] = <<>> THEN "IndexError"
    ELSE Bool(section[1][1] # <<>> /\ section[1][1][1] = "6")

\* SyllabifiedTextSection([["|"]]), SyllabifiedVolpianoSection([["3---"]]) and
\* the padding section [[""]]
TextBarlineSection == << << <<"|">> >> >>
VolBarlineSection == << << <<"3", "-", "-", "-">> >> >>
EmptySection == << << <<>> >> >>

\* SyllabifiedVolpianoSection.flatten_to_str
flatten_to_str(section) == Concat([k \in 1..Len(section) |-> Concat(section[k])])

-----------------------------------------------------------------------------
(* text_volpiano_alignment.py *)

\* _zip_and_align: [zipped, padding_needed], zipped a list of pairs
\* a zip that stops at the end of the shorter list
_zip_truncated(txt, vol, pad_text, pad_volpiano) ==
    [zipped |-> [k \in 1..Min(Len(txt), Len(vol)) |-> <<txt[k], vol[k]>>],
     padding_needed |-> Len(txt) # Len(vol)]

_zip_and_align(txt, vol, pad_text, pad_volpiano) ==
    [zipped |-> [k \in 1..Max(Len(txt), Len(vol)) |->
                    <<IF k <= Len(txt) THEN txt[k] ELSE pad_text,
                      IF k <= Len(vol) THEN vol[k] ELSE pad_volpiano>>],
     padding_needed |-> Len(txt) # Len(vol)]

\* _align_word: [err, pairs, padded]; zipped_word[-1] raises IndexError when
\* both words are empty lists
_align_word(txt, vol) ==
    LET z == _zip_and_align(txt, vol, <<>>, <<"-", "-", "-">>)
        n == Len(z.zipped)
    IN  IF n = 0 THEN [err |-> "IndexError", pairs |-> <<>>, padded |-> FALSE]
        ELSE [err |-> "none",
              pairs |-> [k \in 1..n |->
                  <<z.zipped[k][1],
                    adjust_volpiano_spacing_for_rendering(
                        z.zipped[k][2], Len(z.zipped[k][1]), k = n)>>],
              padded |-> z.padding_needed]

\* every padded word counts as misaligned
word_misaligned_always(word_padded_flag, txt_word) == word_padded_flag

\* the test of _align_section on an aligned word: padding of a word other
\* than the missing word indicator ["#"] is a misalignment
word_misaligned(word_padded_flag, txt_word) ==
    word_padded_flag /\ txt_word # << <<"#">> >>

\* _align_section: [err, pairs, flag]
_align_section(text_section, volpiano_section) ==
    LET syllabified == text_is_syllabified(text_section)
        raised == [err |-> "IndexError", pairs |-> <<>>, flag |-> FALSE]
    IN  IF syllabified = "IndexError" THEN raised
        ELSE IF syllabified = "F" THEN
          LET unsyllabified_text == text_section[1][1]
              flattened_volpiano == flatten_to_str(volpiano_section)
              missing == vol_is_missing_music(volpiano_section)
          IN  IF missing = "IndexError" THEN raised
              ELSE [err |-> "none",
                    pairs |-> << <<unsyllabified_text,
                        IF missing = "T"
                        THEN adjust_missing_music_spacing_for_rendering(
                                 flattened_volpiano, Len(unsyllabified_text)).val
                        ELSE adjust_volpiano_spacing_for_rendering(
                                 flattened_volpiano, Len(unsyllabified_text), TRUE)>> >>,
                    flag |-> FALSE]
        ELSE
          LET z == _zip_and_align(text_section, volpiano_section,
                                  << <<>> >>, << <<"-", "-", "-">> >>)
              n == Len(z.zipped)
              w == [k \in 1..n |-> _align_word(z.zipped[k][1], z.zipped[k][2])]
          IN  IF \E k \in 1..n : w[k].err # "none" THEN raised
              ELSE [err |-> "none",
                    pairs |-> Concat([k \in 1..n |-> w[k].pairs]),
                    flag |-> \/ z.padding_needed
                             \/ \E k \in 1..n :
                                  word_misaligned(w[k].padded, z.zipped[k][1])]

\* a split that loses the word at the split
insert_barline_word_lost(sections, section_to_split_idx, split_word_idx, barline) ==
    LET section_to_split == sections[section_to_split_idx + 1]
    IN  Slice(sections, 0, section_to_split_idx)
        \o <<Slice(section_to_split, 0, split_word_idx),
             barline,
             SliceFrom(section_to_split, split_word_idx + 1)>>
        \o SliceFrom(sections, section_to_split_idx + 1)

\* list.insert of the barline section and of the second half of the split
\* section: sections[idx] is split before word split_word_idx (0-based)
insert_barline(sections, section_to_split_idx, split_word_idx, barline) ==
    LET section_to_split == sections[section_to_split_idx + 1]
    IN  Slice(sections, 0, section_to_split_idx)
        \o <<Slice(section_to_split, 0, split_word_idx),
             barline,
             SliceFrom(section_to_split, split_word_idx)>>
        \o SliceFrom(sections, section_to_split_idx + 1)

\* a split of the section that inserts no barline
_insert_text_barline_split_only(syllabified_str, section_to_split_idx, split_word_idx) ==
    Slice(syllabified_str, 0, section_to_split_idx)
    \o <<Slice(syllabified_str[section_to_split_idx + 1], 0, split_word_idx),
         SliceFrom(syllabified_str[section_to_split_idx + 1], split_word_idx)>>
    \o SliceFrom(syllabified_str, section_to_split_idx + 1)

_insert_text_barline(syllabified_str, section_to_split_idx, split_word_idx) ==
    insert_barline(syllabified_str, section_to_split_idx, split_word_idx,
                   TextBarlineSection)

_insert_volpiano_barline(syllabified_str, section_to_split_idx, split_word_idx) ==
    insert_barline(syllabified_str, section_to_split_idx, split_word_idx,
                   VolBarlineSection)

\* sum(section.is_barline for section in sections), or -1 when is_barline
\* raises IndexError for a section
num_barlines_text(sections) ==
    IF \E k \in 1..Len(sections) : text_is_barline(sections[k]) = "IndexError" THEN -1
    ELSE Cardinality({k \in 1..Len(sections) : text_is_barline(sections[k]) = "T"})

num_barlines_volpiano(sections) ==
    IF \E k \in 1..Len(sections) : vol_is_barline(sections[k]) = "IndexError" THEN -1
    ELSE Cardinality({k \in 1..Len(sections) : vol_is_barline(sections[k]) = "T"})

Abs(x) == IF x < 0 THEN -x ELSE x

\* num_words_diff of _infer_barlines
num_words_diff(txt, vol) ==
    [k \in 1..Min(Len(txt), Len(vol)) |-> Abs(Len(txt[k]) - Len(vol[k]))]

\* the loop of _infer_barlines leaves when the barline counts agree or no
\* section differs in its number of words
infer_loop_exits(txt, vol) ==
    \/ num_barlines_text(txt) = num_barlines_volpiano(vol)
    \/ /\ Len(num_words_diff(txt, vol)) > 0
       /\ \A k \in 1..Len(num_words_diff(txt, vol)) : num_words_diff(txt, vol)[k] = 0

\* the element of a set of one element
Only(S) == CHOOSE x \in S : TRUE

\* the update of the numbers of barlines at the end of an iteration of
\* _infer_barlines: [err, text, vol]
recounted(new_txt, new_vol) ==
    IF num_barlines_text(new_txt) = -1 \/ num_barlines_volpiano(new_vol) = -1
    THEN [err |-> "IndexError", text |-> new_txt, vol |-> new_vol]
    ELSE [err |-> "none", text |-> new_txt, vol |-> new_vol]

\* one iteration of the while loop of _infer_barlines that does not leave
\* the loop: [err, text, vol].  max() of an empty list raises ValueError; the
\* recount of the barlines raises IndexError on an empty section.
infer_iteration(txt, vol) ==
    LET diff == num_words_diff(txt, vol)
        max_num_words_diff == SetMax({diff[k] : k \in 1..Len(diff)})
        max_diff_idx == SetMin({k \in 1..Len(diff) : diff[k] = max_num_words_diff}) - 1
        text_more == num_barlines_text(txt) > num_barlines_volpiano(vol)
        new_vol == IF text_more
                   THEN _insert_volpiano_barline(vol, max_diff_idx,
                                                 Len(txt[max_diff_idx + 1]))
                   ELSE vol
        new_txt == IF text_more THEN txt
                   ELSE _insert_text_barline(txt, max_diff_idx,
                                             Len(vol[max_diff_idx + 1]))
    IN  IF Len(diff) = 0 THEN [err |-> "ValueError", text |-> txt, vol |-> vol]
        ELSE Only({recounted(new[1], new[2]) : new \in {<<new_txt, new_vol>>}})

\* a return without the padding
pad_sections_skipped(txt, vol) == [err |-> "none", text |-> txt, vol |-> vol]

\* the padding of the shorter list of sections at the end of _infer_barlines:
\* [err, text, vol]
pad_sections(txt, vol) ==
    IF Len(txt) > Len(vol)
    THEN LET addl == SliceFrom(txt, Len(vol))
         IN  IF \E k \in 1..Len(addl) : text_is_barline(addl[k]) = "IndexError"
             THEN [err |-> "IndexError", text |-> txt, vol |-> vol]
             ELSE [err |-> "none", text |-> txt,
                   vol |-> vol \o [k \in 1..Len(addl) |->
                       IF text_is_barline(addl[k]) = "T"
                       THEN VolBarlineSection ELSE EmptySection]]
    ELSE LET addl == SliceFrom(vol, Len(txt))
         IN  IF \E k \in 1..Len(addl) : vol_is_barline(addl[k]) = "IndexError"
             THEN [err |-> "IndexError", text |-> txt, vol |-> vol]
             ELSE [err |-> "none", vol |-> vol,
                   text |-> txt \o [k \in 1..Len(addl) |->
                       IF vol_is_barline(addl[k]) = "T"
                       THEN TextBarlineSection ELSE EmptySection]]

\* try: syllabify_text(...) except ValueError: syllabify_text(...,
\* clean_text=True) with the review flag set; first is the outcome of the try
or_cleaned(first, chant_text, text_presyllabified) ==
    IF first.err = "none" THEN first
    ELSE [syllabify_text(chant_text, TRUE, text_presyllabified) EXCEPT !.adj = TRUE]

\* a final barline that is taken as it stands
final_barline_as_is(preprocessed) ==
    [proper |-> preprocessed[Len(preprocessed)] \in {"3", "4"},
     fin_bar |-> preprocessed[Len(preprocessed)],
     body |-> Slice(preprocessed, 0, Len(preprocessed) - 1)]

\* the check of the final barline of the preprocessed volpiano:
\* [proper, fin_bar, body]
final_barline(preprocessed) ==
    LET last == preprocessed[Len(preprocessed)]
    IN  IF last \in {"3", "4"}
        THEN [proper |-> TRUE, fin_bar |-> last,
              body |-> Slice(preprocessed, 0, Len(preprocessed) - 1)]
        ELSE [proper |-> FALSE, fin_bar |-> "3", body |-> preprocessed]

\* the syllabified text and volpiano and the review flag collected so far:
\* [err, text, vol, fin_bar, flag]
tokens(txt, prep_flag, end, vol) ==
    IF txt.err # "none"
    THEN [err |-> txt.err, text |-> <<>>, vol |-> <<>>, fin_bar |-> "", flag |-> TRUE]
    ELSE [err |-> "none", text |-> txt.secs, vol |-> vol.secs,
          fin_bar |-> end.fin_bar,
          flag |-> txt.adj \/ prep_flag \/ ~end.proper \/ vol.improper]

tokenize_body(txt, prep_flag, end) ==
    tokens(txt, prep_flag, end, syllabify_volpiano(end.body))

\* an empty preprocessed volpiano string becomes "-"
tokenize_volpiano(txt, prep) ==
    tokenize_body(txt, prep.flag,
                  final_barline(IF prep.vol = <<>> THEN <<"-">> ELSE prep.vol))

\* the first part of align_text_and_volpiano, up to the syllabified text and
\* volpiano
align_tokenize(chant_text, raw_volpiano, text_presyllabified) ==
    tokenize_volpiano(
        or_cleaned(syllabify_text(chant_text, FALSE, text_presyllabified),
                   chant_text, text_presyllabified),
        prepare_volpiano_for_syllabification(raw_volpiano))

\* the loop over the zipped sections at the end of align_text_and_volpiano:
\* [err, pairs, flag]
align_sections(txt, vol) ==
    LET n == Min(Len(txt), Len(vol))
        a == [k \in 1..n |-> _align_section(txt[k], vol[k])]
    IN  IF \E k \in 1..n : a[k].err # "none"
        THEN [err |-> "IndexError", pairs |-> <<>>, flag |-> FALSE]
        ELSE [err |-> "none",
              pairs |-> Concat([k \in 1..n |-> a[k].pairs]),
              flag |-> \E k \in 1..n : a[k].flag]

-----------------------------------------------------------------------------
(* Inputs of the word syllabifier *)

\* every lowercase word over these letters up to MaxWordLen is tried
WordAlphabet == {"a", "e", "i", "o", "u", "n", "s", "t", "q", "h", "x", "b"}

\* mixed-case and non-alphabetic inputs
MixedAlphabet == {"a", "E", "n", "-", "1"}

\* words of the repository's tests and exception table
SampleWords ==
    {<<"B","e","n","e","d","i","c","t","u","s">>, <<"q","u","i">>,
     <<"c","a","e","l","u","m">>, <<"i","s","r","a","e","l">>,
     <<"M","i","c","h","a","e","l">>, <<"E","u","o","u","a","e">>,
     <<"i","s","r","a","e","l","i","t","i","s">>, <<"N","O","E">>,
     <<"a","b","i","e","c","t","u","s">>, <<"s","a","n","c","t","u","s">>,
     <<"c","o","n","s","t","r","u","o">>, <<"p","e","r","e","o">>,
     <<"r","h","y","t","h","m","u","s">>, <<"a","s","t","r","a">>,
     <<"s","c","u","l","p","t","u","s">>, <<"d","e","s","c","r","i","b","o">>}

InputWords ==
    SeqsUpTo(WordAlphabet, MaxWordLen) \cup SeqsUpTo(MixedAlphabet, MaxWordLen)
        \cup SampleWords

NoSections == <<>>
NoTextResult == [err |-> "none", secs |-> <<>>, adj |-> FALSE]
NoWordResult == [err |-> "none", val |-> <<>>]
NoVolResult == [err |-> "none", vol |-> <<>>, secs |-> <<>>, flag |-> FALSE]

-----------------------------------------------------------------------------
(* Specification of the word syllabifier: a caller passes a word to          *)
(* syllabify_word and, when it returns, splits the word at the boundaries.   *)

InitWord ==
    /\ pc = "word_call"
    /\ word \in InputWords
    /\ wres = NoWordResult
    /\ syls = <<>>
    /\ text = <<>> /\ clean = FALSE /\ presyl = FALSE /\ tres = NoTextResult
    /\ volpiano = <<>> /\ st_text = NoSections /\ st_vol = NoSections
    /\ fin_bar = "" /\ flag = FALSE /\ err = "none" /\ aligned = <<>> /\ iters = 0
    /\ vres = NoVolResult /\ txt_length = 0

SyllabifyWord ==
    /\ pc = "word_call"
    /\ wres' = syllabify_word(word)
    /\ pc' = IF wres'.err = "none" THEN "word_returned" ELSE "word_raised"
    /\ UNCHANGED <<vres, txt_length, word, syls, text, clean, presyl, tres, volpiano, st_text,
                   st_vol, fin_bar, flag, err, aligned, iters>>

SplitWord ==
    /\ pc = "word_returned"
    /\ syls' = split_word_by_syl_bounds(word, wres.val)
    /\ pc' = "word_split"
    /\ UNCHANGED <<vres, txt_length, word, wres, text, clean, presyl, tres, volpiano, st_text,
                   st_vol, fin_bar, flag, err, aligned, iters>>

NextWord == SyllabifyWord \/ SplitWord

SpecWord == InitWord /\ [][NextWord]_vars

-----------------------------------------------------------------------------
(* Inputs of the text tokenizer *)

MaxTextLen == 3

\* every text over these characters up to MaxTextLen is tried
TextAlphabet ==
    {"n", "o", "e", " ", "|", "#", "{", "}", "~", "[", "]", "-", "1", "@"}

\* texts of the repository's tests, with the exception words in several cases
SampleTexts ==
    {     <<"N", "o", "e">>, <<"n", "o", "e">>, <<"N", "O", "E">>,
     <<"E", "u", "o", "u", "a", "e">>,
     <<"e", "u", "o", "u", "a", "e", " ", "i", "s", "r", "a", "e", "l">>,
     <<"M", "i", "c", "h", "a", "e", "l">>, <<"-", "i", "s", "r", "a", "e", "l">>,
     <<"m", "i", "c", "h", "a", "e", "l", "-">>,
     <<"S", "a", "n", "c", "t", "u", "s", " ", "s", "a", "n", "c", "t", "u", "s">>,
     <<"e", "t", " ", "{", "t", "e", "r", "r", "a", " ", "g", "l", "o", "r", "i", "a", "}", " ", "t", "u", "a">>,
     <<"~", "G", "l", "o", "r", "i", "a", " ", "|", " ", "~", "I", "p", "s", "u", "m", " ", "[", "C", "a", "n", "t", "i", "c", "u", "m", "]">>,
     <<"p", "l", "e", "n", "-", " ", "#", " ", "s", "u", "n", "t", " ", "#", " ", "-", "l", "i">>,
     <<"B", "e", "n", "e", "-", " ", "{", "d", "i", "c", "t", "u", "s", "}", " ", "q", "u", "i">>,
     <<"{", "c", "a", "n", "t", "i", "c", "-", " ", "#", "}", " ", "{", "#", "}", " ", "{", "#", " ", "-", "o", "v", "u", "m", "}">>,
     <<"a", "-", "b">>, <<"c", "a", "-", "e", "-", "l", "u", "m">>,
     <<"q", "u", "i", "a", "@", " ", "f", "e", "c", "i", "t">>}

InputTexts == SeqsUpTo(TextAlphabet, MaxTextLen) \cup SampleTexts

-----------------------------------------------------------------------------
(* Specification of the text tokenizer: a caller passes a text to           *)
(* syllabify_text and, as align_text_and_volpiano does, calls it again with *)
(* clean_text = True when the first call raised a ValueError.               *)

InitText ==
    /\ pc = "text_call"
    /\ text \in InputTexts
    /\ clean \in BOOLEAN
    /\ presyl \in BOOLEAN
    /\ tres = NoTextResult
    /\ word = <<>> /\ wres = NoWordResult /\ syls = <<>>
    /\ volpiano = <<>> /\ st_text = NoSections /\ st_vol = NoSections
    /\ fin_bar = "" /\ flag = FALSE /\ err = "none" /\ aligned = <<>> /\ iters = 0
    /\ vres = NoVolResult /\ txt_length = 0

SyllabifyText ==
    /\ pc = "text_call"
    /\ tres' = syllabify_text(text, clean, presyl)
    /\ pc' = IF tres'.err = "none" THEN "text_returned" ELSE "text_raised"
    /\ UNCHANGED <<vres, txt_length, word, wres, syls, text, clean, presyl, volpiano, st_text,
                   st_vol, fin_bar, flag, err, aligned, iters>>

RetryClean ==
    /\ pc = "text_raised"
    /\ ~clean
    /\ clean' = TRUE
    /\ tres' = syllabify_text(text, TRUE, presyl)
    /\ pc' = IF tres'.err = "none" THEN "text_returned" ELSE "text_raised"
    /\ UNCHANGED <<vres, txt_length, word, wres, syls, text, presyl, volpiano, st_text,
                   st_vol, fin_bar, flag, err, aligned, iters>>

NextText == SyllabifyText \/ RetryClean

SpecText == InitText /\ [][NextText]_vars

-----------------------------------------------------------------------------
(* Inputs of the aligner *)

MaxTextToks == 2
MaxVolToks == 2

\* " ".join(toks)
RECURSIVE JoinSp(_)
JoinSp(toks) ==
    IF toks = <<>> THEN <<>>
    ELSE IF Len(toks) = 1 THEN toks[1]
    ELSE toks[1] \o <<" ">> \o JoinSp(Tail(toks))

\* every text of up to MaxTextToks of these words, joined by spaces, is tried
\* with every volpiano made of up to MaxVolToks of these pieces
TextToks ==
    {<<"a">>, <<"e", "a">>, <<"|">>, <<"#">>, <<"{", "a", "}">>}
VolToks ==
    {     <<"1", "-", "-", "-">>, <<"f", "-", "-", "-">>,
     <<"f", "-", "-", "g", "-", "-", "-">>, <<"3", "-", "-", "-">>,
     <<"6", "-", "-", "-", "-", "-", "-", "6", "-", "-", "-">>}

\* texts and volpiano strings with more sections, all pairs of which are tried
ScenarioTexts ==
    {<<"a">>, <<"a", " ", "e", "a">>, <<"a", " ", "|", " ", "a">>,
     <<"a", " ", "a", " ", "|", " ", "a">>,
     <<"a", " ", "|", " ", "a", " ", "|", " ", "a">>, <<"{", "a", "}", " ", "e", "a">>,
     <<"#", " ", "a">>, <<"a", " ", "#">>, <<"@">>, <<"a", " ", "@">>,
     <<"~", "a", " ", "|", " ", "a">>, <<"a", "1">>,
     <<"a", "@", " ", "|", " ", "e", "a">>, <<>>, <<"[", "a", "]", " ", "a">>,
     <<"a", " ", "{", "t", "e", "r", "r", "a", " ", "g", "l", "o", "r", "i", "a", "}", " ", "t", "e", "r", "r", "a">>,
     <<"e", "t", " ", "{", "t", "e", "r", "r", "a", " ", "g", "l", "o", "r", "i", "a", "}", " ", "t", "u", "a">>}
ScenarioVols ==
    {     <<"1", "-", "-", "-", "f", "-", "-", "-", "f", "-", "-", "g", "-", "-", "-", "3">>,
     <<"1", "-", "-", "-", "f", "-", "-", "-", "3", "-", "-", "-", "f", "-", "-", "-", "3">>,
     <<"1", "-", "-", "-", "f", "-", "-", "-", "f", "-", "-", "-", "f", "-", "-", "-", "3">>,
     <<"1", "-", "-", "-", "f", "-", "-", "-", "3", "-", "-", "-", "f", "-", "-", "-", "3", "-", "-", "-", "f", "-", "-", "-", "4">>,
     <<"1", "-", "-", "-", "6", "-", "-", "-", "-", "-", "-", "6", "-", "-", "-", "f", "-", "-", "g", "-", "-", "-", "3">>,
     <<"1", "-", "-", "-", "f", "-", "-", "-", "6", "-", "-", "-", "-", "-", "-", "6", "-", "-", "-", "g", "-", "-", "h", "g", "-", "h", "g", "f", "-", "-", "-", "3">>,
     <<"1", "-", "-", "-", "f", "-", "-", "-">>, <<>>, <<"3">>, <<"1", "-", "-", "-", "3">>,
     <<"1", "-", "-", "-", "f", "-", "-", "-", "3">>,
     <<"1", "-", "-", "-", "f", "-", "-", "g", "-", "-", "3">>,
     <<"1", "-", "-", "-", "6", "-", "-", "-", "-", "-", "-", "6", "-", "-", "-", "3">>,
     <<"1", "-", "-", "-", "f", "-", "-", "-", "3", "-", "-", "-", "3">>,
     <<"1", "-", "-", "-", "f", "-", "-", "-", "3", "-", "-", "-", "g", "-", "-", "-", "3">>,
     <<"1", "-", "-", "-", "-", "f", "-", "-", "x", "-", "g", "-", "-", "-", "3">>,
     <<"f", "-", "-", "-", "3">>,
     <<"1", "-", "-", "-", "f", "-", "-", "-", "3", "-", "g", "-", "-", "-", "3">>,
     <<"1", "-", "-", "-", "f", "-", "-", "-", "7", "-", "-", "-", "3", "-", "-", "-", "g", "-", "-", "-", "3">>}

AlignInputs ==
    ({JoinSp(t) : t \in SeqsUpTo(TextToks, MaxTextToks)}
        \X {Concat(v) : v \in SeqsUpTo(VolToks, MaxVolToks)} \X {FALSE})
    \cup (ScenarioTexts \X ScenarioVols \X BOOLEAN)

-----------------------------------------------------------------------------
(* Specification of the aligner: one call of align_text_and_volpiano, in    *)
(* the steps tokenize, barline-inference loop, padding of the sections and  *)
(* alignment of the zipped sections.                                        *)

InitAlign ==
    /\ pc = "align_call"
    /\ \E i \in AlignInputs : text = i[1] /\ volpiano = i[2] /\ presyl = i[3]
    /\ clean = FALSE /\ tres = NoTextResult
    /\ word = <<>> /\ wres = NoWordResult /\ syls = <<>>
    /\ st_text = NoSections /\ st_vol = NoSections
    /\ fin_bar = "" /\ flag = FALSE /\ err = "none" /\ aligned = <<>> /\ iters = 0
    /\ vres = NoVolResult /\ txt_length = 0

Raise(e) ==
    /\ pc' = "raised"
    /\ err' = e

\* the state after the tokenizers returned r
Tokenized(r) ==
    IF r.err # "none"
    THEN /\ Raise(r.err)
         /\ flag' = r.flag
         /\ UNCHANGED <<st_text, st_vol, fin_bar, aligned>>
    ELSE /\ st_text' = r.text
         /\ st_vol' = r.vol
         /\ fin_bar' = r.fin_bar
         /\ flag' = r.flag
         /\ aligned' = << << <<>>, <<"1", "-", "-", "-">> >> >>
         /\ pc' = IF Len(r.text) # Len(r.vol) THEN "infer" ELSE "zip"
         /\ err' = "none"

\* align_text_and_volpiano up to the opening clef pair
AlignTokenize ==
    /\ pc = "align_call"
    /\ Tokenized(align_tokenize(text, volpiano, presyl))
    /\ UNCHANGED <<vres, txt_length, word, wres, syls, text, clean, presyl, tres, volpiano, iters>>

\* an iteration of the while loop of _infer_barlines
InferIterate ==
    /\ pc = "infer"
    /\ ~infer_loop_exits(st_text, st_vol)
    /\ \E r \in {infer_iteration(st_text, st_vol)} :
           /\ st_text' = r.text
           /\ st_vol' = r.vol
           /\ IF r.err # "none" THEN Raise(r.err)
              ELSE pc' = "infer" /\ err' = "none"
    /\ iters' = iters + 1
    /\ UNCHANGED <<vres, txt_length, word, wres, syls, text, clean, presyl, tres, volpiano,
                   fin_bar, flag, aligned>>

\* the while loop of _infer_barlines is left
InferExit ==
    /\ pc = "infer"
    /\ infer_loop_exits(st_text, st_vol)
    /\ pc' = "pad"
    /\ UNCHANGED <<vres, txt_length, word, wres, syls, text, clean, presyl, tres, volpiano, st_text,
                   st_vol, fin_bar, flag, err, aligned, iters>>

\* the padding at the end of _infer_barlines and its return
PadSections ==
    /\ pc = "pad"
    /\ LET r == pad_sections(st_text, st_vol)
       IN  IF r.err # "none"
           THEN Raise(r.err) /\ UNCHANGED <<st_text, st_vol, flag>>
           ELSE /\ st_text' = r.text
                /\ st_vol' = r.vol
                /\ flag' = TRUE
                /\ pc' = "zip"
                /\ err' = "none"
    /\ UNCHANGED <<vres, txt_length, word, wres, syls, text, clean, presyl, tres, volpiano,
                   fin_bar, aligned, iters>>

\* the loop over the zipped sections and the return
AlignSections ==
    /\ pc = "zip"
    /\ LET r == align_sections(st_text, st_vol)
       IN  IF r.err # "none"
           THEN Raise(r.err) /\ UNCHANGED <<flag, aligned>>
           ELSE /\ aligned' = aligned \o r.pairs \o << << <<>>, <<fin_bar>> >> >>
                /\ flag' = (flag \/ r.flag)
                /\ pc' = "returned"
                /\ err' = "none"
    /\ UNCHANGED <<vres, txt_length, word, wres, syls, text, clean, presyl, tres, volpiano,
                   st_text, st_vol, fin_bar, iters>>

NextAlign ==
    AlignTokenize \/ InferIterate \/ InferExit \/ PadSections \/ AlignSections

SpecAlign == InitAlign /\ [][NextAlign]_vars

-----------------------------------------------------------------------------
(* Properties of the word syllabifier (checked under SpecWord) *)

WordReturned == pc \in {"word_returned", "word_split"}

AsciiLetters == LowerLetters \cup UpperLetters

StrictlyAscending(b) == \A i \in 1..(Len(b) - 1) : b[i] < b[i + 1]

\* the syllables with the hyphen appended to each non-final syllable removed
StripSylHyphens(ss) ==
    [i \in 1..Len(ss) |->
        IF i < Len(ss) /\ Len(ss[i]) > 0 /\ ss[i][Len(ss[i])] = "-"
        THEN Slice(ss[i], 0, Len(ss[i]) - 1) ELSE ss[i]]

\* C1: for every word of Latin letters, syllabify_word returns strictly
\* ascending indices within 1..len(w)-1, and the syllables of
\* split_word_by_syl_bounds, with the hyphen of each non-final syllable
\* removed, join to exactly the original word.
C1_RoundTrip ==
    /\ WordReturned =>
         /\ StrictlyAscending(wres.val)
         /\ \A i \in 1..Len(wres.val) : wres.val[i] \in 1..(Len(word) - 1)
    /\ pc = "word_split" =>
         /\ Len(syls) = Len(wres.val) + 1
         /\ \A i \in 1..(Len(syls) - 1) : syls[i][Len(syls[i])] = "-"
         /\ Concat(StripSylHyphens(syls)) = word

\* a capitalised word of three or more syllables has been split
C1_Witness ==
    /\ pc = "word_split"
    /\ Len(syls) >= 3
    /\ word[1] \in UpperLetters

\* C5: syllabify_word raises LatinError exactly for the inputs that contain
\* a character outside a-z/A-Z.
C5_LatinError ==
    pc \in {"word_returned", "word_raised", "word_split"} =>
        (wres.err = "LatinError" <=> \E i \in 1..Len(word) : word[i] \notin AsciiLetters)

\* both outcomes: an upper-case word was accepted
C5_Witness ==
    /\ pc = "word_returned"
    /\ \E i \in 1..Len(word) : word[i] \in UpperLetters
    /\ Len(wres.val) >= 1

\* number of adjacent vowel positions of stem that spell ae, oe or au
DiphthongCount(stem, vow_pos) ==
    Cardinality({k \in 1..(Len(vow_pos) - 1) :
        /\ vow_pos[k + 1] = vow_pos[k] + 1
        /\ <<At(stem, vow_pos[k]), At(stem, vow_pos[k + 1])>>
              \in {<<"a","e">>, <<"o","e">>, <<"a","u">>}})

\* vowel groups: vowel positions of the rewritten string, a diphthong counted once
VowelGroups(stem) ==
    IF stem = <<>> THEN 0
    ELSE Len(_get_vowel_positions(stem)) - DiphthongCount(stem, _get_vowel_positions(stem))

PrefixOf(w) == IF Len(w) <= 1 THEN <<>> ELSE _get_prefixes(w)
StemOf(w) == SliceFrom(w, Len(PrefixOf(w)))

\* C8 as stated: for all alphabetic words, also those with no vowel,
\* boundaries + 1 = number of vowel groups identified internally (those of the
\* semivowel-rewritten stem, and one for a detected prefix).
C8_AsStated ==
    (WordReturned /\ word # <<>>) =>
        LET w == lower(word)
            pre == IF PrefixOf(w) = <<>> THEN 0 ELSE 1
        IN  Len(wres.val) + 1 = VowelGroups(StemOf(w)) + pre

\* C8 amended: a word without a vowel position is one syllable and gets no
\* boundary; otherwise boundaries + 1 = vowel groups of the rewritten stem
\* (the word after a detected prefix), plus one for a detected prefix.
C8_VowelGroups ==
    WordReturned =>
        LET w == lower(word)
            pre == IF PrefixOf(w) = <<>> THEN 0 ELSE 1
            g == VowelGroups(StemOf(w))
        IN  IF g = 0 THEN wres.val = <<>>
            ELSE Len(wres.val) + 1 = g + pre

\* a word with a diphthong and a further vowel group has been syllabified
C8_Witness ==
    /\ pc = "word_returned"
    /\ Len(wres.val) >= 1
    /\ DiphthongCount(lower(word), _get_vowel_positions(lower(word))) >= 1

\* C10: syllabify_word returns the exception table's boundaries for a word
\* whose lowercase form is an entry of the table.
C10_ExceptionFirst ==
    (WordReturned /\ lower(word) \in DOMAIN EXCEPTIONS_DICT) =>
        wres.val = EXCEPTIONS_DICT[lower(word)]

-----------------------------------------------------------------------------
(* Properties of the text tokenizer (checked under SpecText) *)

TextDone == pc \in {"text_returned", "text_raised"}

\* C6: syllabify_text with clean_text = False raises the invalid-character
\* error whenever the text holds a disallowed character, and with
\* clean_text = True it never raises but returns a list of sections.
C6_CleanNeverFails ==
    TextDone =>
        /\ (~clean /\ _detect_invalid_characters(text)) => tres.err = "ValueError"
        /\ clean => (pc = "text_returned" /\ tres.err = "none")

\* C7: for a text without disallowed characters, syllabify_text returns the
\* same sections and the same spacing flag (or fails alike) with clean_text
\* True and False, for both values of text_presyllabified.
C7_CleanIdempotent ==
    (TextDone /\ ~_detect_invalid_characters(text)) =>
        tres = syllabify_text(text, ~clean, presyl)

\* a text of two or more sections, one of them literal, was tokenized with
\* cleaning although it held no disallowed character
C7_Witness ==
    /\ pc = "text_returned"
    /\ clean
    /\ ~_detect_invalid_characters(text)
    /\ Len(tres.secs) >= 2
    /\ \E k \in 1..Len(tres.secs) : Len(tres.secs[k]) >= 1 /\ Len(tres.secs[k][1]) >= 2

\* the syllables of w cut at the 0-based indices bounds, a hyphen appended to
\* every syllable but the last
CutAt(w, bounds) ==
    [i \in 1..(Len(bounds) + 1) |->
        LET from == IF i = 1 THEN 0 ELSE bounds[i - 1]
            to == IF i = Len(bounds) + 1 THEN Len(w) ELSE bounds[i]
        IN  [j \in 1..(to - from) |-> w[from + j]]
            \o (IF i = Len(bounds) + 1 THEN <<>> ELSE <<"-">>)]

\* the text as syllabify_text splits it into sections
SectionsOf(t, c) ==
    _split_text_sections(_space_hash_signs(IF c THEN _clean_text(t) ELSE t).text)

\* the words of a section that is syllabified
WordsOf(text_section) == NonEmpty(split_on(text_section, " ", <<>>))

-----------------------------------------------------------------------------
(* Properties of the aligner (checked under SpecAlign) *)

AlignDone == pc \in {"returned", "raised"}

\* the text and the volpiano of the call are tokenized and their numbers of
\* barline sections differ
UnequalBarlines ==
    LET r == align_tokenize(text, volpiano, presyl)
    IN  /\ r.err = "none"
        /\ num_barlines_text(r.text) # num_barlines_volpiano(r.vol)

\* C2: for a text and a volpiano whose tokenizations hold different numbers
\* of barline sections, align_text_and_volpiano raises no exception and
\* returns the list of pairs with the review flag set.
C2_UnequalBarlinesAligned ==
    (AlignDone /\ UnequalBarlines) => (pc = "returned" /\ err = "none" /\ flag)

\* C3: align_text_and_volpiano returns pairs and a flag for every text and
\* every volpiano string; it never raises.
C3_NeverRaises == pc # "raised" /\ err = "none"

\* the preprocessed volpiano string of the call
Preprocessed ==
    LET prep == prepare_volpiano_for_syllabification(volpiano).vol
    IN  IF prep = <<>> THEN <<"-">> ELSE prep

LastChar(s) == s[Len(s)]

\* C4: the returned list starts with ("", "1---") and ends with ("", b), b the
\* last character of the preprocessed volpiano when that is "3" or "4" (the
\* body is then tokenized without it), and otherwise "3" with the review
\* flag set.
C4_ClefAndFinalBarline ==
    [][/\ (pc = "align_call" /\ pc' # "raised") =>
            st_vol' = syllabify_volpiano(
                          IF LastChar(Preprocessed) \in {"3", "4"}
                          THEN SubSeq(Preprocessed, 1, Len(Preprocessed) - 1)
                          ELSE Preprocessed).secs
       /\ pc' = "returned" =>
            /\ Len(aligned') >= 2
            /\ aligned'[1] = << <<>>, <<"1", "-", "-", "-">> >>
            /\ aligned'[Len(aligned')][1] = <<>>
            /\ IF LastChar(Preprocessed) \in {"3", "4"}
               THEN aligned'[Len(aligned')][2] = <<LastChar(Preprocessed)>>
               ELSE aligned'[Len(aligned')][2] = <<"3">> /\ flag']_vars

\* a volpiano ending in the barline "4" has been aligned with a text of two
\* or more syllables
C4_Witness ==
    /\ pc = "returned"
    /\ LastChar(Preprocessed) = "4"
    /\ Len(aligned) >= 4

-----------------------------------------------------------------------------
(* Further properties of the word syllabifier (checked under SpecWord) *)

\* C11: syllabify_word("Benedictus") = [2, 4, 7], syllabify_word("qui") = []
\* (the u after q is no vowel) and syllabify_word("caelum") = [3] (no
\* boundary inside the diphthong ae).
C11_Examples ==
    WordReturned =>
        /\ word = <<"B","e","n","e","d","i","c","t","u","s">> => wres.val = <<2, 4, 7>>
        /\ word = <<"q","u","i">> => wres.val = <<>>
        /\ word = <<"c","a","e","l","u","m">> => wres.val = <<3>>

\* syllabify_word("qui") has returned
C11_Witness ==
    /\ pc = "word_returned"
    /\ word = <<"q","u","i">>
    /\ wres.err = "none"

-----------------------------------------------------------------------------
(* Further properties of the aligner (checked under SpecAlign) *)

\* every section holds a word and every word a syllable
WellFormedSections(sections) ==
    \A k \in 1..Len(sections) :
        /\ Len(sections[k]) >= 1
        /\ \A j \in 1..Len(sections[k]) : Len(sections[k][j]) >= 1

\* C12: when align_text_and_volpiano zips the sections pairwise, also after
\* barline inference and padding, both lists have the same length, every
\* section holds at least one word and every word at least one syllable.
C12_ZipWellFormed ==
    pc = "zip" =>
        /\ Len(st_text) = Len(st_vol)
        /\ WellFormedSections(st_text)
        /\ WellFormedSections(st_vol)

\* the sections are about to be zipped after a barline was inferred and the
\* shorter list was padded
C12_Witness ==
    /\ pc = "zip"
    /\ iters >= 1
    /\ Len(st_text) >= 3
    /\ Len(st_text) # Len(align_tokenize(text, volpiano, presyl).text)

\* s is c, then "7"s, then exactly "---", for a marker c
MarkerThenSpacing(s, c) ==
    /\ StartsWith(s, c)
    /\ LastN(s, 3) = <<"-", "-", "-">>
    /\ Len(s) >= Len(c) + 3
    /\ \A i \in (Len(c) + 1)..(Len(s) - 3) : s[i] = "7"

ProperBarline(s) == MarkerThenSpacing(s, <<"3">>) \/ MarkerThenSpacing(s, <<"4">>)

ProperMissingMusic(s) ==
    MarkerThenSpacing(s, <<"6", "-", "-", "-", "-", "-", "-", "6">>)

\* s ends in exactly three hyphens
EndsInThreeHyphens(s) ==
    /\ LastN(s, 3) = <<"-", "-", "-">>
    /\ Len(s) >= 4 => s[Len(s) - 3] # "-"

\* a spacing convention is violated somewhere in the sections
SpacingViolated(sections) ==
    \E k \in 1..Len(sections) :
        LET first == flatten_to_str(sections[k])[1]
        IN  IF first \in {"3", "4"} THEN ~ProperBarline(flatten_to_str(sections[k]))
            ELSE IF first = "6" THEN ~ProperMissingMusic(flatten_to_str(sections[k]))
            ELSE \E j \in 1..Len(sections[k]) :
                    ~EndsInThreeHyphens(sections[k][j][Len(sections[k][j])])

\* a normalization of the tokenizers fired: the text was cleaned, "#" was
\* re-spaced, volpiano characters were removed, the closing barline was
\* synthesized or the volpiano is improperly spaced
TokenizerRepair ==
    \/ syllabify_text(text, FALSE, presyl).err # "none"
    \/ _space_hash_signs(text).adjusted
    \/ prepare_volpiano_for_syllabification(volpiano).flag
    \/ LastChar(Preprocessed) \notin {"3", "4"}
    \/ LET r == syllabify_volpiano(
                    IF LastChar(Preprocessed) \in {"3", "4"}
                    THEN SubSeq(Preprocessed, 1, Len(Preprocessed) - 1)
                    ELSE Preprocessed)
       IN  r.improper \/ SpacingViolated(r.secs)

\* the tokenized text and volpiano differ in their number of sections, so
\* that barlines are inferred and sections padded
SectionRepair ==
    LET r == align_tokenize(text, volpiano, presyl)
    IN  r.err = "none" /\ Len(r.text) # Len(r.vol)

\* a syllabified section of the zipped lists needs a word padded, or a word
\* other than "#" needs a syllable padded
PaddingRepair ==
    \E k \in 1..Min(Len(st_text), Len(st_vol)) :
        /\ text_is_syllabified(st_text[k]) = "T"
        /\ \/ Len(st_text[k]) # Len(st_vol[k])
           \/ \E j \in 1..Min(Len(st_text[k]), Len(st_vol[k])) :
                 /\ Len(st_text[k][j]) # Len(st_vol[k][j])
                 /\ st_text[k][j] # <<"#">>

\* C13: within a call of align_text_and_volpiano the review flag starts
\* false, only ever changes from false to true, and is true at the return
\* whenever a normalization or repair fired.
C13_ReviewFlag ==
    /\ [](pc = "align_call" => ~flag)
    /\ [][/\ flag => flag'
          /\ (pc' = "returned" /\ (TokenizerRepair \/ SectionRepair \/ PaddingRepair))
                => flag']_vars

\* a call returned with the flag set although only a syllable was padded
C13_Witness ==
    /\ pc = "returned"
    /\ flag
    /\ ~TokenizerRepair
    /\ ~SectionRepair
    /\ PaddingRepair

\* a call returned without the flag: nothing was repaired but a "#" padded
C13_WitnessClear ==
    /\ pc = "returned"
    /\ ~flag
    /\ Len(aligned) >= 3

-----------------------------------------------------------------------------
(* Inputs of the volpiano functions *)

MaxVolPieces == 3
MaxTextLength == 12

\* every volpiano string made of up to MaxVolPieces of these pieces is tried
VolPieces ==
    {<<"1", "-", "-", "-">>, <<"f", "-", "-", "-">>, <<"f", "-", "-">>, <<"-">>,
     <<"3", "-", "-", "-">>, <<"3">>, <<"4">>, <<"6">>, <<"7">>, <<"x">>,
     <<"6", "-", "-", "-", "-", "-", "-", "6", "-", "-", "-">>}

SampleVols ==
    {<<"6", "-", "-", "-", "-", "-", "-", "6", "7", "7", "-", "-", "-">>,
     <<"6", "-", "-", "-", "-", "-", "-", "6", "7", "-", "-", "-", "-", "-">>,
     <<"1", "-", "-", "-", "-", "f", "-", "-", "-", "3", "-", "-", "-">>,
     <<"f", "-", "-", "-", "3", "7", "-", "-", "-", "g", "-", "-", "-", "4", "-", "-", "-">>,
     <<"f", "-", "-", "-", "3", "-", "-", "g", "-", "-", "-", "3", "-", "-", "-">>,
     <<"f", "-", "-", "-", "f", "-", "-", "-", "3", "-", "-", "g", "-", "-", "-">>,
     <<"f", "-", "-", "-", "f", "-", "-", "-", "f", "-", "-", "-", "3", "-", "-", "g", "-", "-", "-">>,
     <<"f", "-", "g", "-", "-", "h", "-", "-", "-", "-", "k", "-", "-", "-">>}

InputVols == {Concat(v) : v \in SeqsUpTo(VolPieces, MaxVolPieces)} \cup SampleVols

-----------------------------------------------------------------------------
(* Specification of the volpiano functions: a caller passes a volpiano       *)
(* string to one of prepare_volpiano_for_syllabification, syllabify_volpiano *)
(* and adjust_missing_music_spacing_for_rendering.                           *)

InitVol ==
    /\ pc = "vol_call"
    /\ volpiano \in InputVols
    /\ vres = NoVolResult /\ txt_length = 0
    /\ word = <<>> /\ wres = NoWordResult /\ syls = <<>>
    /\ text = <<>> /\ clean = FALSE /\ presyl = FALSE /\ tres = NoTextResult
    /\ st_text = NoSections /\ st_vol = NoSections
    /\ fin_bar = "" /\ flag = FALSE /\ err = "none" /\ aligned = <<>> /\ iters = 0

volframe == <<word, wres, syls, text, clean, presyl, tres, volpiano, st_text,
              st_vol, fin_bar, flag, err, aligned, iters>>

Prepared(r) ==
    /\ vres' = [err |-> "none", vol |-> r.vol, secs |-> <<>>, flag |-> r.flag]
    /\ pc' = "vol_prepared"

PrepareVolpiano ==
    /\ pc = "vol_call"
    /\ Prepared(prepare_volpiano_for_syllabification(volpiano))
    /\ UNCHANGED txt_length
    /\ UNCHANGED volframe

Syllabified(r) ==
    /\ vres' = [err |-> "none", vol |-> <<>>, secs |-> r.secs, flag |-> r.improper]
    /\ pc' = "vol_syllabified"

SyllabifyVolpiano ==
    /\ pc = "vol_call"
    /\ Syllabified(syllabify_volpiano(volpiano))
    /\ UNCHANGED txt_length
    /\ UNCHANGED volframe

Adjusted(r) ==
    /\ vres' = [err |-> r.err, vol |-> r.val, secs |-> <<>>, flag |-> FALSE]
    /\ pc' = IF r.err = "none" THEN "vol_adjusted" ELSE "vol_adjust_raised"

AdjustMissingMusic ==
    /\ pc = "vol_call"
    /\ \E n \in 0..MaxTextLength :
          /\ txt_length' = n
          /\ Adjusted(adjust_missing_music_spacing_for_rendering(volpiano, n))
    /\ UNCHANGED volframe

NextVol == PrepareVolpiano \/ SyllabifyVolpiano \/ AdjustMissingMusic

SpecVol == InitVol /\ [][NextVol]_vars

-----------------------------------------------------------------------------
(* Properties of the volpiano functions *)

AdjustDone == pc \in {"vol_adjusted", "vol_adjust_raised"}

\* the text after the last "6" of v
AfterLastSix(v) == SliceFrom(v, SetMax(PositionsFrom(v, "6", 0)) + 1)

\* the rescaled marker for a text of n characters
SpacedMarker(n) ==
    IF n <= 10 THEN <<"6", "-", "-", "-", "-", "-", "-", "6">>
    ELSE <<"6">> \o Hyphens(n) \o <<"6">>

\* C14: adjust_missing_music_spacing_for_rendering(v, n), for v starting with
\* "6", returns "6------6" (n <= 10) or "6" + n hyphens + "6" (n > 10)
\* followed by what followed the last "6" of v, its trailing hyphens made
\* "---"; for every v not starting with "6" it raises ValueError.
C14_MissingMusicSpacing ==
    AdjustDone =>
        IF StartsWith(volpiano, <<"6">>)
        THEN /\ vres.err = "none"
             /\ rstrip_hyphens(vres.vol) =
                    SpacedMarker(txt_length) \o rstrip_hyphens(AfterLastSix(volpiano))
             /\ LastN(vres.vol, 3) = <<"-", "-", "-">>
        ELSE vres.err = "ValueError"

VolSyllabified == pc = "vol_syllabified"

SpacersOnly(s) == \A i \in 1..Len(s) : s[i] \in {"-", "7"}

\* a barline token: "3" or "4" with its trailing hyphens and "7"s
IsBarlineToken(s) ==
    s # <<>> /\ s[1] \in {"3", "4"} /\ SpacersOnly(SliceFrom(s, 1))

\* a paired missing-music marker: "6...6" with its trailing hyphens and "7"s
IsMissingMusicToken(s) ==
    /\ s # <<>> /\ s[1] = "6"
    /\ \E k \in 2..Len(s) :
          s[k] = "6" /\ SpacersOnly(Slice(s, 1, k - 1)) /\ SpacersOnly(SliceFrom(s, k))

\* a barline or a paired missing-music marker starts somewhere in s
HoldsToken(s) ==
    \E i \in 1..Len(s) :
        \/ s[i] \in {"3", "4"}
        \/ /\ s[i] = "6"
           /\ \E k \in (i + 1)..Len(s) : s[k] = "6" /\ SpacersOnly(Slice(s, i, k - 1))

\* a run of n or more hyphens of s ends at position i, before another character
RunEndsAt(s, i, n) ==
    /\ n <= i /\ i < Len(s)
    /\ \A j \in (i - n + 1)..i : s[j] = "-"
    /\ s[i + 1] # "-"

\* parts cuts s after every run of n or more hyphens and nowhere else
SplitOnRuns(s, parts, n) ==
    /\ Concat(parts) = s
    /\ \A k \in 1..Len(parts) :
          /\ parts[k] # <<>>
          /\ ~\E i \in 1..Len(parts[k]) : RunEndsAt(parts[k], i, n)
          /\ k < Len(parts) =>
                /\ LastN(parts[k], n) = Hyphens(n)
                /\ parts[k + 1][1] # "-"

MarkerSection(sec) ==
    /\ Len(sec) = 1 /\ Len(sec[1]) = 1
    /\ IsBarlineToken(sec[1][1]) \/ IsMissingMusicToken(sec[1][1])

SpanSection(sec) ==
    /\ ~HoldsToken(flatten_to_str(sec))
    /\ SplitOnRuns(flatten_to_str(sec), [k \in 1..Len(sec) |-> Concat(sec[k])], 3)
    /\ \A k \in 1..Len(sec) : SplitOnRuns(Concat(sec[k]), sec[k], 2)

\* C15: syllabify_volpiano loses no character; every barline token and every
\* paired missing-music marker, with its trailing hyphens and "7"s, is a
\* section of one word of one syllable; every other span is cut into words
\* after each run of 3 or more hyphens and each word into syllables after
\* each run of 2 or more hyphens.
C15_Sectioning ==
    VolSyllabified =>
        /\ Concat([k \in 1..Len(vres.secs) |-> flatten_to_str(vres.secs[k])]) = volpiano
        /\ \A k \in 1..Len(vres.secs) :
              /\ MarkerSection(vres.secs[k]) \/ SpanSection(vres.secs[k])
              /\ (k < Len(vres.secs) /\ MarkerSection(vres.secs[k])) =>
                    flatten_to_str(vres.secs[k + 1])[1] \notin {"-", "7"}
              /\ (k < Len(vres.secs) /\ ~MarkerSection(vres.secs[k])) =>
                    MarkerSection(vres.secs[k + 1])

VolPrepared == pc = "vol_prepared"

\* the characters of s that belong to the melody alphabet
ValidOnly(s) ==
    LET valid(c) == c \in VALID_VOLPIANO_CHARS
    IN  SelectSeq(s, valid)

\* the first clef of v is at position i and its hyphens end at position j
FirstClef(v, i, j) ==
    /\ v[i] = "1"
    /\ \A k \in 1..(i - 1) : v[k] # "1"
    /\ \A k \in (i + 1)..j : v[k] = "-"
    /\ j = Len(v) \/ v[j + 1] # "-"

\* C16: prepare_volpiano_for_syllabification returns only characters of the
\* melody alphabet (never "1"): the valid characters of what follows the first
\* clef and its hyphens (of the whole input when it has no clef). Its flag is
\* false exactly when the input starts with "1---" not followed by a fourth
\* hyphen and no character after the clef was removed.
C16_Prepare ==
    VolPrepared =>
        /\ \A k \in 1..Len(vres.vol) :
              vres.vol[k] \in VALID_VOLPIANO_CHARS /\ vres.vol[k] # "1"
        /\ IF \E i \in 1..Len(volpiano) : volpiano[i] = "1"
           THEN \E i \in 1..Len(volpiano) : \E j \in i..Len(volpiano) :
                   /\ FirstClef(volpiano, i, j)
                   /\ vres.vol = ValidOnly(SubSeq(volpiano, j + 1, Len(volpiano)))
                   /\ vres.flag = ~(/\ i = 1 /\ j = 4
                                    /\ vres.vol = SubSeq(volpiano, j + 1, Len(volpiano)))
           ELSE vres.vol = ValidOnly(volpiano) /\ vres.flag

\* a correctly encoded clef was removed, and nothing else
C16_Witness ==
    /\ VolPrepared /\ ~vres.flag
    /\ vres.vol # <<>> /\ volpiano = <<"1", "-", "-", "-">> \o vres.vol

\* a character after the clef was removed
C16_WitnessRemoved ==
    /\ VolPrepared /\ vres.flag
    /\ StartsWith(volpiano, <<"1", "-", "-", "-", "f">>)
    /\ Len(vres.vol) < Len(volpiano) - 4

\* C17: syllabify_volpiano never raises, and its flag is true whenever a
\* barline section is not "3" or "4", "7"s and exactly "---", a missing-music
\* section is not "6------6", "7"s and exactly "---", or the final syllable
\* of a word does not end in exactly three hyphens, wherever that is.
C17_SpacingFlagged ==
    VolSyllabified =>
        /\ vres.err = "none"
        /\ SpacingViolated(vres.secs) => vres.flag

-----------------------------------------------------------------------------
(* Further properties of the text tokenizer (checked under SpecText) *)

TextReturned == pc = "text_returned"

\* p is "|", a "{...}" span, a "[...]" span or a "~" span
IsLiteralSpan(p) ==
    \/ p = <<"|">>
    \/ Len(p) >= 2 /\ p[1] = "{" /\ p[Len(p)] = "}"
    \/ Len(p) >= 2 /\ p[1] = "[" /\ p[Len(p)] = "]"
    \/ p # <<>> /\ p[1] = "~"

\* a "|", a "~", a "{" with a later "}" or a "[" with a later "]" is in p
HoldsLiteralSpan(p) ==
    \E i \in 1..Len(p) :
        \/ p[i] \in {"|", "~"}
        \/ p[i] = "{" /\ \E j \in (i + 1)..Len(p) : p[j] = "}"
        \/ p[i] = "[" /\ \E j \in (i + 1)..Len(p) : p[j] = "]"

\* C18: in the output of syllabify_text every "|", "{...}", "[...]" and "~"
\* span is a section of one word of one syllable, the trimmed literal text;
\* only the other sections are split on spaces into words, and is_syllabified
\* is false for exactly the literal sections.
C18_LiteralSections ==
    TextReturned =>
        /\ Len(tres.secs) = Len(SectionsOf(text, clean))
        /\ \A k \in 1..Len(tres.secs) :
              LET p == SectionsOf(text, clean)[k]
              IN  IF IsLiteralSpan(p)
                  THEN /\ tres.secs[k] = << <<p>> >>
                       /\ strip(p) = p
                       /\ text_is_syllabified(tres.secs[k]) = "F"
                  ELSE /\ ~HoldsLiteralSpan(p)
                       /\ Len(tres.secs[k]) = Len(WordsOf(p))
                       /\ \A j \in 1..Len(tres.secs[k]) : tres.secs[k][j] # <<>>
                       /\ text_is_syllabified(tres.secs[k]) = "T"

Alphabetic(w) == w # <<>> /\ \A i \in 1..Len(w) : w[i] \in LATIN_ALPH

\* x is "-" + w, w + "-" or "-" + w + "-" for the alphabetic word w
Fragment(x) ==
    /\ x # <<>>
    /\ x[1] = "-" \/ x[Len(x)] = "-"
    /\ Alphabetic(_prepare_string_for_syllabification(x).word)

\* C19: a word of a syllabified section written "-" + w, w + "-" or
\* "-" + w + "-", w alphabetic, gets the syllables that w alone gets, with
\* "-" put before the first and/or after the last of them.
C19_Fragments ==
    TextReturned =>
        \A k \in 1..Len(SectionsOf(text, clean)) :
            ~is_literal_section(SectionsOf(text, clean)[k]) =>
                \A j \in 1..Len(WordsOf(SectionsOf(text, clean)[k])) :
                    LET x == WordsOf(SectionsOf(text, clean)[k])[j]
                        prep == _prepare_string_for_syllabification(x)
                        alone == syllabify_text(prep.word, clean, presyl)
                    IN  Fragment(x) =>
                            /\ alone.err = "none"
                            /\ alone.secs = << << alone.secs[1][1] >> >>
                            /\ tres.secs[k][j] =
                                   readd_hyphens(alone.secs[1][1],
                                                 prep.start_hyphen, prep.end_hyphen)

\* the hyphens of x other than a leading and a trailing one
EmbeddedHyphens(x) ==
    Cardinality(PositionsFrom(_prepare_string_for_syllabification(x).word, "-", 0))

\* C20: with text_presyllabified = True every word of a syllabified section
\* is split at its embedded hyphens and nowhere else: the syllables spell the
\* word as written, there is one more of them than embedded hyphens, and
\* each but the last ends in "-".
C20_Presyllabified ==
    (TextReturned /\ presyl) =>
        \A k \in 1..Len(SectionsOf(text, clean)) :
            ~is_literal_section(SectionsOf(text, clean)[k]) =>
                \A j \in 1..Len(WordsOf(SectionsOf(text, clean)[k])) :
                    LET x == WordsOf(SectionsOf(text, clean)[k])[j]
                        s == tres.secs[k][j]
                    IN  /\ Concat(s) = x
                        /\ Len(s) = EmbeddedHyphens(x) + 1
                        /\ \A i \in 1..(Len(s) - 1) : LastN(s[i], 1) = <<"-">>

-----------------------------------------------------------------------------
(* The aligner with a loop that runs: while _infer_barlines is in its loop, *)
(* the next iteration or the exit of the loop is eventually taken.          *)

SpecAlignFair == SpecAlign /\ WF_vars(InferIterate) /\ WF_vars(InferExit)

-----------------------------------------------------------------------------
(* Properties of the barline inference (checked under SpecAlignFair and     *)
(* SpecAlign)                                                                *)

\* the difference of the barline counts of the tokenized text and volpiano
InitialBarlineGap ==
    LET r == align_tokenize(text, volpiano, presyl)
    IN  IF r.err # "none" THEN 0
        ELSE Abs(num_barlines_text(r.text) - num_barlines_volpiano(r.vol))

\* an iteration of the loop that stays in the loop
InferStep == pc = "infer" /\ pc' = "infer" /\ iters' = iters + 1

\* C21: the loop of _infer_barlines terminates: an iteration that does not
\* leave the loop raises the barline count of the side with fewer barlines
\* by exactly one and leaves the other count unchanged, the loop takes at
\* most |barlines(text) - barlines(volpiano)| iterations, and it is left.
C21_InferTerminates ==
    /\ [][InferStep =>
            IF num_barlines_text(st_text) > num_barlines_volpiano(st_vol)
            THEN /\ num_barlines_volpiano(st_vol') = num_barlines_volpiano(st_vol) + 1
                 /\ num_barlines_text(st_text') = num_barlines_text(st_text)
            ELSE /\ num_barlines_text(st_text') = num_barlines_text(st_text) + 1
                 /\ num_barlines_volpiano(st_vol') = num_barlines_volpiano(st_vol)]_vars
    /\ [](iters <= InitialBarlineGap)
    /\ (pc = "infer") ~> (pc # "infer")

\* the loop was left after two inferred barlines
C21_Witness ==
    /\ pc = "pad"
    /\ iters = 2

\* the number of barline sections of a list of sections
BarlinesOfText(sections) ==
    Cardinality({k \in 1..Len(sections) : text_is_barline(sections[k]) = "T"})
BarlinesOfVolpiano(sections) ==
    Cardinality({k \in 1..Len(sections) : vol_is_barline(sections[k]) = "T"})

\* _infer_barlines returns
InferReturns == pc = "pad" /\ pc' = "zip"

\* C23 as stated: when _infer_barlines returns, the text and the volpiano
\* hold the same number of barline sections.
C23_AsStated ==
    [][InferReturns => BarlinesOfText(st_text') = BarlinesOfVolpiano(st_vol')]_vars

\* C23: when _infer_barlines returns, the text and the volpiano hold the same
\* number of sections.
C23_EqualSections ==
    [][InferReturns => Len(st_text') = Len(st_vol')]_vars

\* _infer_barlines returned after inferring a barline and padding a list
C23_Witness ==
    /\ pc = "zip"
    /\ iters >= 1
    /\ \E k \in 1..Len(st_text) : st_text[k] = EmptySection \/ st_vol[k] = EmptySection

\* the words of a list of sections, in order
AllWords(sections) == Concat(sections)

\* a list without its k-th element
Without(s, k) == SubSeq(s, 1, k - 1) \o SubSeq(s, k + 1, Len(s))

\* new is old with one section split in two around one inserted barline
\* section, every word of old kept in its place
OneBarlineInserted(old, new, barline) ==
    /\ Len(new) = Len(old) + 2
    /\ \E k \in 1..Len(new) :
           /\ new[k] = barline
           /\ AllWords(Without(new, k)) = AllWords(old)
           /\ \A j \in 1..(k - 2) : new[j] = old[j]
           /\ \A j \in (k + 2)..Len(new) : new[j] = old[j - 2]

\* an iteration of the loop of _infer_barlines that reaches its insertion: it
\* stays in the loop, or raises in the recount of the barlines
InferIteration == pc = "infer" /\ iters' = iters + 1 /\ err' # "ValueError"

\* C24: an iteration of the barline inference changes only the side with
\* fewer barlines; the other list of sections is unchanged, and the changed
\* list gains one barline section ('|' or '3---') and keeps all its words and
\* syllables in their order.
C24_OneSideOneBarline ==
    [][InferIteration =>
          IF num_barlines_text(st_text) > num_barlines_volpiano(st_vol)
          THEN /\ st_text' = st_text
               /\ OneBarlineInserted(st_vol, st_vol', VolBarlineSection)
          ELSE /\ st_vol' = st_vol
               /\ OneBarlineInserted(st_text, st_text', TextBarlineSection)]_vars

\* a barline was inserted in the text between two words of a section, and
\* one in the volpiano
C24_Witness ==
    /\ pc = "infer"
    /\ iters >= 1
    /\ \E k \in 2..(Len(st_text) - 1) :
           /\ st_text[k] = TextBarlineSection
           /\ st_text[k - 1] # <<>> /\ st_text[k + 1] # <<>>
    /\ BarlinesOfText(st_text)
           > BarlinesOfText(align_tokenize(text, volpiano, presyl).text)

-----------------------------------------------------------------------------
(* Properties of the returned pairs (checked under SpecAlign) *)

RECURSIVE SumSeq(_)
SumSeq(s) == IF s = <<>> THEN 0 ELSE Head(s) + SumSeq(Tail(s))

\* the pairs between the clef pair and the closing barline pair
Interior == SubSeq(aligned, 2, Len(aligned) - 1)

\* the j-th word of a section, or the pad when the section is shorter
WordOr(section, j, pad) == IF j <= Len(section) THEN section[j] ELSE pad

\* the numbers of pairs that the words of a pair of sections yield: one pair
\* for a section whose text is not syllabified, and for each pair of words of
\* a syllabified section the larger of their numbers of syllables
SectionUnits(text_section, volpiano_section) ==
    IF text_is_syllabified(text_section) # "T" THEN <<1>>
    ELSE [j \in 1..Max(Len(text_section), Len(volpiano_section)) |->
             Max(Len(WordOr(text_section, j, << <<>> >>)),
                 Len(WordOr(volpiano_section, j, << <<"-", "-", "-">> >>)))]

\* the numbers of pairs of all units (words and unsyllabified sections) of
\* the zipped sections, in order
Units == Concat([k \in 1..Min(Len(st_text), Len(st_vol)) |->
                    SectionUnits(st_text[k], st_vol[k])])

\* the position in Interior of the last pair of the j-th unit
UnitEnd(j) == SumSeq(SubSeq(Units, 1, j))

AlignReturned == pc = "returned"

C26_MelodyNotShorter ==
    AlignReturned =>
        \A i \in 1..Len(Interior) : Len(Interior[i][2]) >= Len(Interior[i][1])

\* pairs were returned for a syllable of text longer than its syllable of
\* melody and for a missing-music section shorter than its text
C26_Witness ==
    /\ AlignReturned
    /\ \E k \in 1..Len(st_text) :
           /\ text_is_syllabified(st_text[k]) = "T"
           /\ \E j \in 1..Min(Len(st_text[k]), Len(st_vol[k])) :
                  \E i \in 1..Min(Len(st_text[k][j]), Len(st_vol[k][j])) :
                      Len(st_text[k][j][i]) > Len(st_vol[k][j][i])
    /\ \E k \in 1..Len(st_text) :
           /\ vol_is_missing_music(st_vol[k]) = "T"
           /\ Len(st_text[k][1][1]) > Len(flatten_to_str(st_vol[k]))

\* the position among the units of the j-th word pair of the k-th section
UnitIndex(k, j) ==
    SumSeq([m \in 1..(k - 1) |-> Len(SectionUnits(st_text[m], st_vol[m]))]) + j

\* the i-th returned pair of the j-th word pair of the k-th section
PairAt(k, j, i) == Interior[UnitEnd(UnitIndex(k, j) - 1) + i]

\* the j-th words of the k-th sections are paired and the text word has more
\* syllables than the melody word
TextWordLonger(k, j) ==
    /\ text_is_syllabified(st_text[k]) = "T"
    /\ j <= Len(st_text[k]) /\ j <= Len(st_vol[k])
    /\ Len(st_text[k][j]) > Len(st_vol[k][j])

\* the numbers of pairs of the units if the excess syllables of a longer text
\* word were merged into the last slot of the melody word
MergedUnits ==
    Concat([k \in 1..Min(Len(st_text), Len(st_vol)) |->
        [j \in 1..Len(SectionUnits(st_text[k], st_vol[k])) |->
            IF TextWordLonger(k, j) THEN Len(st_vol[k][j])
            ELSE SectionUnits(st_text[k], st_vol[k])[j]]])

FlaggingPad(k) ==
    /\ text_is_syllabified(st_text[k]) = "T"
    /\ \/ Len(st_text[k]) # Len(st_vol[k])
       \/ \E j \in 1..Min(Len(st_text[k]), Len(st_vol[k])) :
              /\ Len(st_text[k][j]) # Len(st_vol[k][j])
              /\ st_text[k][j] # << <<"#">> >>

\* the word "#" is paired with a melody word of more syllables in a
\* syllabified section
HashPad(k) ==
    /\ text_is_syllabified(st_text[k]) = "T"
    /\ \E j \in 1..Min(Len(st_text[k]), Len(st_vol[k])) :
           /\ st_text[k][j] = << <<"#">> >>
           /\ Len(st_vol[k][j]) > 1

SectionsAligned == pc = "zip" /\ pc' = "returned"

\* C28: the alignment of the sections sets the review flag when a
\* syllabified section is padded with a word, or a word other than "#" is
\* padded with a syllable; the padding of the word "#" with text for a melody
\* word of more syllables does not set it.
C28_PaddingFlag ==
    [][SectionsAligned =>
          flag' = (flag \/ \E k \in 1..Len(st_text) : FlaggingPad(k))]_vars

\* pairs were returned without the review flag for a text whose word "#" was
\* padded
C28_Witness ==
    /\ AlignReturned
    /\ ~flag
    /\ \E k \in 1..Len(st_text) : HashPad(k)
    /\ \E i \in 1..Len(Interior) : Interior[i][1] = <<>>

-----------------------------------------------------------------------------
(* Consonant sequences between vowel groups (checked under SpecWord) *)

\* the letters between the k-th and the next vowel position of the stem
LettersBetween(stem, k) ==
    Slice(stem, _get_vowel_positions(stem)[k] + 1, _get_vowel_positions(stem)[k + 1])

\* three or more letters, the first neither a nasal nor "x"
LongSequence(ltrs) ==
    /\ Len(ltrs) >= 3
    /\ ltrs[1] \notin _NASALIZED_CONSONANTS
    /\ ltrs[1] # "x"

\* the place of the boundary in a long sequence: before the final two letters
\* if they are a consonant group, else after the first two letters if they
\* are one, else after the first letter
ClusterBoundary(ltrs) ==
    IF LastN(ltrs, 2) \in _CONSONANT_GROUPS THEN Len(ltrs) - 2
    ELSE IF Slice(ltrs, 0, 2) \in _CONSONANT_GROUPS THEN 2
    ELSE 1

\* C29: for three or more consonants between two vowel groups (no leading
\* nasal, not starting with "x") the boundary is before the final two letters
\* if they form a consonant group, else after the first two letters if they
\* form one, else after the first letter.
C29_LongSequences ==
    (WordReturned /\ Len(StemOf(lower(word))) >= 5) =>
        LET stem == StemOf(lower(word))
            vow_pos == _get_vowel_positions(stem)
        IN  \A k \in 1..(Len(vow_pos) - 1) :
                LongSequence(LettersBetween(stem, k)) =>
                    \E i \in 1..Len(wres.val) :
                        wres.val[i] = Len(PrefixOf(lower(word))) + vow_pos[k] + 1
                                      + ClusterBoundary(LettersBetween(stem, k))

-----------------------------------------------------------------------------
(* Fragments of exception words (checked under SpecText) *)

\* C30: in syllabify_text a word that is an entry of the exception table
\* with a leading and/or trailing hyphen is split at the indices of the
\* table, the hyphen put back before the first and/or after the last
\* syllable.
C30_ExceptionFragments ==
    TextReturned =>
        \A k \in 1..Len(SectionsOf(text, clean)) :
            ~is_literal_section(SectionsOf(text, clean)[k]) =>
                \A j \in 1..Len(WordsOf(SectionsOf(text, clean)[k])) :
                    LET x == WordsOf(SectionsOf(text, clean)[k])[j]
                        prep == _prepare_string_for_syllabification(x)
                    IN  (Fragment(x) /\ lower(prep.word) \in DOMAIN EXCEPTIONS_DICT) =>
                            tres.secs[k][j] =
                                readd_hyphens(
                                    CutAt(prep.word, EXCEPTIONS_DICT[lower(prep.word)]),
                                    prep.start_hyphen, prep.end_hyphen)

====
